---- MODULE Spec2Model ----
(***************************************************************************)
(* Bandwidth limiting listener/connection of informalict/qos.              *)
(*                                                                         *)
(*   bandwidth/config.go     config, NewConfig, NewRateLimiter, IsTheSame  *)
(*   bandwidth/listener.go   listener, Set*/Get*Limits, Wait*N, Accept     *)
(*   unnamed/part_001        connection, Write, Read, setLimiter           *)
(*                                                                         *)
(* Rates (rate.Limit, a float64) are kept in units of 1/Den bytes per      *)
(* second and token balances in units of 1/Den bytes, so that a fractional *)
(* rate and the truncation int(limit) are representable.  Time advances in *)
(* whole seconds (Tick).                                                   *)
(***************************************************************************)
EXTENDS Integers, Sequences, FiniteSets, TLC

\* ------------------------------------------------------------------ bounds
Den == 2
MaxTime == 2
MaxEpochs == 2
MaxGlobalSets == 1

\* Rates (bytes per second) and explicit bursts passed to NewConfig, and the
\* buffer lengths passed to Read/Write.
Rates == {1}
Bursts == {2}
Sizes == {1, 2}

\* rate.Inf (math.MaxFloat64), the "unlimited" sentinel of rate.Limit.
Inf == 1000000

Dirs == {"write", "read"}
Threads == {1, 2}
Admins == {1, 2}
\* The one caller of the Set* operations in the scenarios without concurrent
\* reconfiguration.
SoleAdmin == {1}
ConnIds == {1, 2}

Min(a, b) == IF a < b THEN a ELSE b
Max(a, b) == IF a > b THEN a ELSE b
\* ceil(a / b) for a >= 0, b > 0
CeilDiv(a, b) == (a + b - 1) \div b
SetMax(S) == CHOOSE x \in S : \A y \in S : y <= x

\* The byte counters stop at SentCap, above every bound they are compared to.
SentCap == SetMax(Bursts \cup Rates) + SetMax(Rates) * MaxTime + SetMax(Sizes) + 1

\* ------------------------------------------------------------------ config
\* int(limit): a float64 rate truncated to an int.
IntOf(limit) == limit \div Den

\* Faulty variant: an unlimited config keeps a burst that was supplied.
NewConfigKeepBurst(limit, burst) ==
    [limit |-> IF limit <= 0 THEN Inf ELSE limit,
     burst |-> IF Len(burst) > 0 /\ burst[1] > 0
               THEN burst[1]
               ELSE IF limit <= 0 \/ limit = Inf THEN 0 ELSE IntOf(limit)]

\* NewConfig(limit, burst...): burst is the variadic argument, a sequence.
NewConfig(limit, burst) ==
    IF limit <= 0 \/ limit = Inf
    THEN [limit |-> Inf, burst |-> 0]
    ELSE [limit |-> limit,
          burst |-> IF Len(burst) > 0 /\ burst[1] > 0
                    THEN burst[1]
                    ELSE IntOf(limit)]

NewUnlimitedConfig == NewConfig(Inf, <<>>)

\* Faulty variant: quotas with the same rate are taken to be the same.
SameLimit(c, other) == c.limit = other.limit

IsTheSame(c, other) == c.limit = other.limit /\ c.burst = other.burst

\* ------------------------------------------------- rate.Limiter (primitive)
\* A limiter is [limit, burst, tokens]; a new one starts with a full bucket.
NewLimiter(limit, burst) ==
    [limit |-> limit, burst |-> burst, tokens |-> burst * Den]

\* Faulty variant: the limiter built from a config starts with no tokens.
EmptyRateLimiter(c) == [limit |-> c.limit, burst |-> c.burst, tokens |-> 0]

\* config.NewRateLimiter
NewRateLimiter(c) == NewLimiter(c.limit, c.burst)

\* Limiter.SetLimit: future refill only; an unlimited limiter is always full.
LimSetLimit(L, newLimit) ==
    [L EXCEPT !.limit = newLimit,
              !.tokens = IF newLimit = Inf THEN L.burst * Den
                         ELSE Min(L.tokens, L.burst * Den)]

\* Limiter.SetBurst: the balance is capped by the new capacity.
LimSetBurst(L, newBurst) ==
    [L EXCEPT !.burst = newBurst,
              !.tokens = IF L.limit = Inf THEN newBurst * Den
                         ELSE Min(L.tokens, newBurst * Den)]

\* One second of refill.
LimRefill(L) ==
    [L EXCEPT !.tokens = IF L.limit = Inf THEN L.burst * Den
                         ELSE Min(L.burst * Den, L.tokens + L.limit)]

\* Limiter.WaitN(ctx, n), the admission part: the error it returns at once,
\* or "nil" when the request is admitted (possibly after a delay).
LimWaitErr(L, n, done) ==
    IF n > L.burst /\ L.limit # Inf THEN "ErrBurst"
    ELSE IF done THEN "Canceled"
    ELSE "nil"

\* The limiter after admitting n bytes (a reservation; the balance may go
\* negative) and the seconds the caller then sleeps.
LimReserve(L, n) ==
    IF L.limit = Inf THEN L ELSE [L EXCEPT !.tokens = L.tokens - n * Den]

LimDelay(L, n) ==
    IF L.limit = Inf \/ L.tokens - n * Den >= 0 THEN 0
    ELSE CeilDiv(n * Den - L.tokens, L.limit)

\* Reservation.Cancel: gives back `back` bytes of a cancelled reservation.
LimRestore(L, back) ==
    IF L.limit = Inf THEN L
    ELSE [L EXCEPT !.tokens = Min(L.burst * Den, L.tokens + back * Den)]

\* ------------------------------------------------------------------- state
VARIABLES
    bl,        \* the listener: c, mutex, limit*Conn, limit*Global, *Limiter
    closed,    \* the channels (notification handles) that have been closed
    conns,     \* the accepted connections, in accept order
    ctxDone,   \* the context given to NewListener has been cancelled
    now,       \* seconds since NewListener
    th,        \* callers of Read/Write: position and locals of the call
    adm,       \* callers of SetConnLimits/SetGlobalLimits
    sent,      \* bytes handed to the wrapped streams of rate-limited
               \* (connection, direction) pairs, counted up to SentCap
    acc,       \* what the last call of Accept returned
    cfg        \* a call of NewConfig: its arguments and its result

vars == <<bl, closed, conns, ctxDone, now, th, adm, sent, acc, cfg>>

\* Quotas the callers of the Set* operations pass, built by NewConfig.
LimitInputs == {0} \cup {k * Den : k \in Rates}
BurstInputs == {<<>>} \cup {<<b>> : b \in Bursts}
Quotas == {NewConfig(l, b) : l \in LimitInputs, b \in BurstInputs}

\* What the wrapped stream may report for a request of n bytes.
StreamResults(n) ==
    {[n |-> n, err |-> "nil"], [n |-> n - 1, err |-> "EIO"]}

IdleThread ==
    [pc |-> "idle", conn |-> 0, dir |-> "write", n |-> 0,
     c |-> 0, wcfg |-> NewUnlimitedConfig, rcfg |-> NewUnlimitedConfig,
     delay |-> 0, retN |-> 0, err |-> "none",
     fresh |-> FALSE, late |-> FALSE,
     lok |-> FALSE, gtook |-> 0, invoked |-> 0,
     io |-> [n |-> 0, err |-> "none", op |-> "none", len |-> 0]]

\* Nothing accepted yet; no NewConfig call observed.
NoAccept == [conn |-> 0, wrapped |-> FALSE, err |-> "none"]
NoConfigCall ==
    [fn |-> "NewConfig", limit |-> 0, burst |-> <<>>, returned |-> FALSE,
     out |-> [limit |-> 0, burst |-> 0]]

IdleAdmin ==
    [pc |-> "idle", w |-> NewUnlimitedConfig, r |-> NewUnlimitedConfig,
     before |-> 0, last |-> "none", globals |-> 0]

\* Faulty variant: the default per-connection read quota carries a burst.
ListenerWithBurst ==
    LET unlimited == NewUnlimitedConfig IN
    [c |-> 0,
     mutex |-> 0,
     limitReadGlobal |-> unlimited,
     limitWriteGlobal |-> unlimited,
     limitReadConn |-> [limit |-> Inf, burst |-> 1],
     limitWriteConn |-> unlimited,
     readLimiter |-> NewRateLimiter(unlimited),
     writeLimiter |-> NewRateLimiter(unlimited)]

\* NewListener(ctx, l) with l # nil.
NewListener ==
    LET unlimited == NewUnlimitedConfig IN
    [c |-> 0,
     mutex |-> 0,
     limitReadGlobal |-> unlimited,
     limitWriteGlobal |-> unlimited,
     limitReadConn |-> unlimited,
     limitWriteConn |-> unlimited,
     readLimiter |-> NewRateLimiter(unlimited),
     writeLimiter |-> NewRateLimiter(unlimited)]

Init ==
    /\ bl = NewListener
    /\ closed = {}
    /\ conns = <<>>
    /\ ctxDone = FALSE
    /\ now = 0
    /\ th = [t \in Threads |-> IdleThread]
    /\ adm = [a \in Admins |-> IdleAdmin]
    /\ sent = [k \in ConnIds |-> [d \in Dirs |-> 0]]
    /\ acc = NoAccept
    /\ cfg = NoConfigCall

\* ---------------------------------------------------------------- listener
\* The fields of the listener and of a connection that belong to a direction.
ConnLimitField(d) == IF d = "write" THEN "limitWriteConn" ELSE "limitReadConn"
GlobalLimitField(d) == IF d = "write" THEN "limitWriteGlobal" ELSE "limitReadGlobal"
GlobalLimiterField(d) == IF d = "write" THEN "writeLimiter" ELSE "readLimiter"
ConnLimiterField(d) == IF d = "write" THEN "connWriteLimiter" ELSE "connReadLimiter"

\* GetConnCfgs: the channel and the write and read connection config.
GetConnCfgs == <<bl.c, bl.limitWriteConn, bl.limitReadConn>>
GetGlobalLimits == <<bl.limitWriteGlobal, bl.limitReadGlobal>>
GetConnLimits == <<bl.limitWriteConn, bl.limitReadConn>>

\* Faulty variants of the comparison: one that looks at the rates only, and
\* one that never finds the quotas equal.
SameRates(writeConn, readConn) ==
    bl.limitWriteConn.limit = writeConn.limit /\ bl.limitReadConn.limit = readConn.limit
NeverTheSame(writeConn, readConn) == FALSE

\* SetConnLimits decides under the lock whether anything changes.
NothingChanges(writeConn, readConn) ==
    IsTheSame(bl.limitWriteConn, writeConn) /\ IsTheSame(bl.limitReadConn, readConn)

\* Faulty variant: the channel is closed but no new one is installed.
RetireKeepChannel(a, writeConn, readConn) ==
    /\ adm[a].pc = "idle"
    /\ bl.mutex = 0
    /\ IF NothingChanges(writeConn, readConn)
       THEN /\ adm' = [adm EXCEPT ![a].w = writeConn, ![a].r = readConn,
                                   ![a].before = bl.c, ![a].last = "same"]
            /\ UNCHANGED <<bl, closed, th, acc, cfg>>
       ELSE /\ bl.c < MaxEpochs
            /\ closed' = closed \cup {bl.c}
            /\ bl' = [bl EXCEPT !.mutex = a]
            /\ adm' = [adm EXCEPT ![a].pc = "connStore",
                                   ![a].w = writeConn, ![a].r = readConn,
                                   ![a].before = bl.c, ![a].last = "none"]
            /\ th' = [t \in Threads |-> [th[t] EXCEPT !.fresh = FALSE]]
    /\ UNCHANGED <<conns, ctxDone, now, sent, acc, cfg>>

\* SetConnLimits, from Lock to make(chan): returns at once when nothing
\* changes, else closes the channel and installs a new one.
SetConnLimits_retire(a, writeConn, readConn) ==
    /\ adm[a].pc = "idle"
    /\ bl.mutex = 0
    /\ IF NothingChanges(writeConn, readConn)
       THEN /\ adm' = [adm EXCEPT ![a].w = writeConn, ![a].r = readConn,
                                   ![a].before = bl.c, ![a].last = "same"]
            /\ UNCHANGED <<bl, closed, th, acc, cfg>>
       ELSE /\ bl.c < MaxEpochs
            /\ closed' = closed \cup {bl.c}
            /\ bl' = [bl EXCEPT !.c = bl.c + 1, !.mutex = a]
            /\ adm' = [adm EXCEPT ![a].pc = "connStore",
                                   ![a].w = writeConn, ![a].r = readConn,
                                   ![a].before = bl.c, ![a].last = "none"]
            /\ th' = [t \in Threads |-> [th[t] EXCEPT !.fresh = FALSE]]
    /\ UNCHANGED <<conns, ctxDone, now, sent, acc, cfg>>

\* Faulty variant: SetConnLimits also sets the limiters of every connection.
StorePush(a) ==
    /\ adm[a].pc = "connStore"
    /\ bl' = [bl EXCEPT !.limitWriteConn = adm[a].w,
                        !.limitReadConn = adm[a].r,
                        !.mutex = 0]
    /\ conns' = [k \in 1..Len(conns) |->
                    [conns[k] EXCEPT
                        !.connWriteLimiter = LimSetBurst(LimSetLimit(@, adm[a].w.limit), adm[a].w.burst),
                        !.connReadLimiter = LimSetBurst(LimSetLimit(@, adm[a].r.limit), adm[a].r.burst)]]
    /\ adm' = [adm EXCEPT ![a].pc = "idle", ![a].last = "changed"]
    /\ UNCHANGED <<closed, ctxDone, now, th, sent, acc, cfg>>

\* Faulty variant: the write and the read config are stored crosswise.
StoreSwapped(a) ==
    /\ adm[a].pc = "connStore"
    /\ bl' = [bl EXCEPT !.limitWriteConn = adm[a].r,
                        !.limitReadConn = adm[a].w,
                        !.mutex = 0]
    /\ adm' = [adm EXCEPT ![a].pc = "idle", ![a].last = "changed"]
    /\ UNCHANGED <<closed, conns, ctxDone, now, th, sent, acc, cfg>>

\* Faulty variant: SetConnLimits returns without unlocking.
StoreKeepsLock(a) ==
    /\ adm[a].pc = "connStore"
    /\ bl' = [bl EXCEPT !.limitWriteConn = adm[a].w,
                        !.limitReadConn = adm[a].r]
    /\ adm' = [adm EXCEPT ![a].pc = "idle", ![a].last = "changed"]
    /\ UNCHANGED <<closed, conns, ctxDone, now, th, sent, acc, cfg>>

\* SetConnLimits, the rest: stores both configs and unlocks.
SetConnLimits_store(a) ==
    /\ adm[a].pc = "connStore"
    /\ bl' = [bl EXCEPT !.limitWriteConn = adm[a].w,
                        !.limitReadConn = adm[a].r,
                        !.mutex = 0]
    /\ adm' = [adm EXCEPT ![a].pc = "idle", ![a].last = "changed"]
    /\ UNCHANGED <<closed, conns, ctxDone, now, th, sent, acc, cfg>>

\* Faulty variant: SetGlobalLimits does not wait for the listener's lock.
SetGlobalLimitsUnlocked(a, writeGlobal, readGlobal) ==
    /\ adm[a].pc = "idle"
    /\ adm[a].globals < MaxGlobalSets
    /\ bl' = [bl EXCEPT !.mutex = a,
                        !.limitWriteGlobal = writeGlobal,
                        !.writeLimiter = LimSetLimit(@, writeGlobal.limit)]
    /\ adm' = [adm EXCEPT ![a].pc = "globalWriteBurst",
                           ![a].w = writeGlobal, ![a].r = readGlobal,
                           ![a].before = bl.c, ![a].last = "none",
                           ![a].globals = @ + 1]
    /\ UNCHANGED <<closed, conns, ctxDone, now, th, sent, acc, cfg>>

\* SetGlobalLimits: four limiter calls under the listener's lock.
SetGlobalLimits_writeLimit(a, writeGlobal, readGlobal) ==
    /\ adm[a].pc = "idle"
    /\ adm[a].globals < MaxGlobalSets
    /\ bl.mutex = 0
    /\ bl' = [bl EXCEPT !.mutex = a,
                        !.limitWriteGlobal = writeGlobal,
                        !.writeLimiter = LimSetLimit(@, writeGlobal.limit)]
    /\ adm' = [adm EXCEPT ![a].pc = "globalWriteBurst",
                           ![a].w = writeGlobal, ![a].r = readGlobal,
                           ![a].before = bl.c, ![a].last = "none",
                           ![a].globals = @ + 1]
    /\ UNCHANGED <<closed, conns, ctxDone, now, th, sent, acc, cfg>>

\* Faulty variant: the burst of the global write limiter is left as it was.
SkipWriteBurst(a) ==
    /\ adm[a].pc = "globalWriteBurst"
    /\ adm' = [adm EXCEPT ![a].pc = "globalReadLimit"]
    /\ UNCHANGED <<bl, closed, conns, ctxDone, now, th, sent, acc, cfg>>

SetGlobalLimits_writeBurst(a) ==
    /\ adm[a].pc = "globalWriteBurst"
    /\ bl' = [bl EXCEPT !.writeLimiter = LimSetBurst(@, adm[a].w.burst)]
    /\ adm' = [adm EXCEPT ![a].pc = "globalReadLimit"]
    /\ UNCHANGED <<closed, conns, ctxDone, now, th, sent, acc, cfg>>

SetGlobalLimits_readLimit(a) ==
    /\ adm[a].pc = "globalReadLimit"
    /\ bl' = [bl EXCEPT !.limitReadGlobal = adm[a].r,
                        !.readLimiter = LimSetLimit(@, adm[a].r.limit)]
    /\ adm' = [adm EXCEPT ![a].pc = "globalReadBurst"]
    /\ UNCHANGED <<closed, conns, ctxDone, now, th, sent, acc, cfg>>

SetGlobalLimits_readBurst(a) ==
    /\ adm[a].pc = "globalReadBurst"
    /\ bl' = [bl EXCEPT !.readLimiter = LimSetBurst(@, adm[a].r.burst),
                        !.mutex = 0]
    /\ adm' = [adm EXCEPT ![a].pc = "idle", ![a].last = "global"]
    /\ UNCHANGED <<closed, conns, ctxDone, now, th, sent, acc, cfg>>

\* Faulty variant of Accept: the private limiters are built unlimited.
UnlimitedConnection ==
    [c |-> bl.c,
     ctx |-> "bl.ctx",
     controller |-> "bl",
     mutex |-> 0,
     connWriteLimiter |-> NewRateLimiter(NewUnlimitedConfig),
     connReadLimiter |-> NewRateLimiter(NewUnlimitedConfig)]

\* Faulty variant of Accept: the connection remembers the listener's first
\* channel instead of the current one.
FirstChannelConnection ==
    [c |-> 0,
     ctx |-> "bl.ctx",
     controller |-> "bl",
     mutex |-> 0,
     connWriteLimiter |-> NewRateLimiter(bl.limitWriteConn),
     connReadLimiter |-> NewRateLimiter(bl.limitReadConn)]

\* Accept, when the wrapped listener returns a connection.
NewConnection ==
    [c |-> bl.c,
     ctx |-> "bl.ctx",
     controller |-> "bl",
     mutex |-> 0,
     connWriteLimiter |-> NewRateLimiter(bl.limitWriteConn),
     connReadLimiter |-> NewRateLimiter(bl.limitReadConn)]

Accept ==
    /\ Len(conns) < Cardinality(ConnIds)
    /\ bl.mutex = 0
    /\ conns' = Append(conns, NewConnection)
    /\ acc' = [conn |-> Len(conns) + 1, wrapped |-> TRUE, err |-> "nil"]
    /\ UNCHANGED <<bl, closed, ctxDone, now, th, adm, sent, cfg>>

\* Faulty variant: a failed Accept still builds a limited connection.
AcceptFailWrapped(raw) ==
    /\ Len(conns) < Cardinality(ConnIds)
    /\ conns' = Append(conns, NewConnection)
    /\ acc' = [conn |-> raw, wrapped |-> TRUE, err |-> "EACCEPT"]
    /\ UNCHANGED <<bl, closed, ctxDone, now, th, adm, sent, cfg>>

\* Accept, when the wrapped listener fails: its connection value raw (0: nil)
\* and its error are returned before the listener's lock is taken.
AcceptFail(raw) ==
    /\ acc' = [conn |-> raw, wrapped |-> FALSE, err |-> "EACCEPT"]
    /\ UNCHANGED <<bl, closed, conns, ctxDone, now, th, adm, sent, cfg>>

\* -------------------------------------------------------------- connection
\* Faulty variant: every connection uses the limiters of the first one.
SharedConnLimiter(k, d) == [scope |-> "conn", conn |-> 1, dir |-> d]

\* A limiter is named by its scope, its connection (0: the listener's) and
\* its direction.
ConnLimiterOf(k, d) == [scope |-> "conn", conn |-> k, dir |-> d]
GlobalLimiterOf(d) == [scope |-> "global", conn |-> 0, dir |-> d]

Limiter(id) ==
    IF id.scope = "global" THEN bl[GlobalLimiterField(id.dir)]
    ELSE conns[id.conn][ConnLimiterField(id.dir)]

\* The listener and connections with limiter id replaced by L.
BlWith(id, L) ==
    IF id.scope = "global" THEN [bl EXCEPT ![GlobalLimiterField(id.dir)] = L]
    ELSE bl
ConnsWith(id, L) ==
    IF id.scope = "global" THEN conns
    ELSE [conns EXCEPT ![id.conn][ConnLimiterField(id.dir)] = L]

\* Faulty variants: the global wait comes first; the global wait is skipped.
GlobalFirst(k, d) == GlobalLimiterOf(d)
NoGlobalWait(k, d) == ConnLimiterOf(k, d)

\* The limiter a Read/Write waits on first and the one it waits on second:
\* connection limiter, then controller.Wait{Write,Read}N.
FirstLimiter(k, d) == ConnLimiterOf(k, d)
SecondLimiter(k, d) == GlobalLimiterOf(d)

\* Faulty variant: setLimiter updates the limiter of the other direction.
ResyncOther(k, d) == ConnLimiterOf(k, IF d = "write" THEN "read" ELSE "write")

\* The limiter setLimiter(isWriter) updates.
ResyncLimiter(k, d) == ConnLimiterOf(k, d)
\* Faulty variant: setLimiter applies the fetched config of the other
\* direction.
ResyncCfgSwapped(t) == IF th[t].dir = "write" THEN th[t].rcfg ELSE th[t].wcfg

\* The fetched config setLimiter(isWriter) applies.
ResyncCfg(t) == IF th[t].dir = "write" THEN th[t].wcfg ELSE th[t].rcfg

\* Bytes of the caller's reservation that count against a global limiter.
Charge(id, n) == IF id.scope = "global" THEN n ELSE 0

\* Direction d is rate-limited: its per-connection or its global quota is
\* finite.
Limited(k, d) ==
    bl[ConnLimitField(d)].limit # Inf \/ bl[GlobalLimitField(d)].limit # Inf

\* Faulty variant: the connection waits under a context nobody cancels.
BackgroundCtx(k) == FALSE

\* The context of connection k: Accept hands every connection the context
\* given to NewListener, and both waits of a Read/Write are given bc.ctx.
ConnCtxDone(k) == conns[k].ctx = "bl.ctx" /\ ctxDone

\* Faulty variant: a failed call reports the requested length.
ReturnLen(t, n, err) ==
    th' = [th EXCEPT ![t] = [IdleThread EXCEPT
              !.pc = "done", !.retN = th[t].n, !.err = err, !.late = th[t].late,
              !.invoked = th[t].invoked, !.io = th[t].io]]

\* A Read/Write returns (n, err) to its caller.
Return(t, n, err) ==
    th' = [th EXCEPT ![t] = [IdleThread EXCEPT
              !.pc = "done", !.retN = n, !.err = err, !.late = th[t].late,
              !.invoked = th[t].invoked, !.io = th[t].io]]

\* Write(b) / Read(b) is called with len(b) = n on connection k.
Call(t, k, d, n) ==
    /\ th[t].pc \in {"idle", "done"}
    /\ k \in 1..Len(conns)
    /\ th' = [th EXCEPT ![t] = [IdleThread EXCEPT
                  !.pc = "select", !.conn = k, !.dir = d, !.n = n,
                  !.fresh = (bl.mutex = 0), !.late = ctxDone]]
    /\ UNCHANGED <<bl, closed, conns, ctxDone, now, adm, sent, acc, cfg>>

\* Faulty variant: every call resyncs, whether the channel is closed or not.
SelectAlways(t) ==
    /\ th[t].pc = "select"
    /\ th' = [th EXCEPT ![t].pc = "fetch"]
    /\ UNCHANGED <<bl, closed, conns, ctxDone, now, adm, sent, acc, cfg>>

\* select { case <-bc.c: setLimiter; default: }
\* The read of bc.c takes no lock and is not ordered with the assignment in
\* setLimiter: it yields the channel stored before or after that assignment,
\* which the interleavings of this step with setLimiter_lock cover.
Select(t) ==
    /\ th[t].pc = "select"
    /\ th' = [th EXCEPT ![t].pc = IF conns[th[t].conn].c \in closed
                                  THEN "fetch" ELSE "first"]
    /\ UNCHANGED <<bl, closed, conns, ctxDone, now, adm, sent, acc, cfg>>

\* Faulty variant: GetConnCfgs reads the listener without its read lock.
FetchUnlocked(t) ==
    /\ th[t].pc = "fetch"
    /\ th' = [th EXCEPT ![t].pc = "lock",
                        ![t].c = GetConnCfgs[1],
                        ![t].wcfg = GetConnCfgs[2],
                        ![t].rcfg = GetConnCfgs[3]]
    /\ UNCHANGED <<bl, closed, conns, ctxDone, now, adm, sent, acc, cfg>>

\* setLimiter: c, newWriteCfg, newReadCfg := bc.controller.GetConnCfgs()
setLimiter_fetch(t) ==
    /\ th[t].pc = "fetch"
    /\ bl.mutex = 0
    /\ th' = [th EXCEPT ![t].pc = "lock",
                        ![t].c = GetConnCfgs[1],
                        ![t].wcfg = GetConnCfgs[2],
                        ![t].rcfg = GetConnCfgs[3]]
    /\ UNCHANGED <<bl, closed, conns, ctxDone, now, adm, sent, acc, cfg>>

\* Faulty variant: the resync remembers the listener's channel of the moment
\* instead of the one fetched with the quotas.
LockRemembersCurrent(t) ==
    /\ th[t].pc = "lock"
    /\ conns[th[t].conn].mutex = 0
    /\ conns' = [conns EXCEPT ![th[t].conn].mutex = t,
                              ![th[t].conn].c = bl.c]
    /\ th' = [th EXCEPT ![t].pc = "setLimit"]
    /\ UNCHANGED <<bl, closed, ctxDone, now, adm, sent, acc, cfg>>

\* setLimiter: bc.mutex.Lock(); bc.c = c
setLimiter_lock(t) ==
    /\ th[t].pc = "lock"
    /\ conns[th[t].conn].mutex = 0
    /\ conns' = [conns EXCEPT ![th[t].conn].mutex = t,
                              ![th[t].conn].c = th[t].c]
    /\ th' = [th EXCEPT ![t].pc = "setLimit"]
    /\ UNCHANGED <<bl, closed, ctxDone, now, adm, sent, acc, cfg>>

\* setLimiter: limiter.SetLimit(cfg.limit)
setLimiter_setLimit(t) ==
    /\ th[t].pc = "setLimit"
    /\ LET id == ResyncLimiter(th[t].conn, th[t].dir) IN
       conns' = ConnsWith(id, LimSetLimit(Limiter(id), ResyncCfg(t).limit))
    /\ th' = [th EXCEPT ![t].pc = "setBurst"]
    /\ UNCHANGED <<bl, closed, ctxDone, now, adm, sent, acc, cfg>>

\* Faulty variant: the resync replaces the limiter by a new, full one.
SetBurstRebuilds(t) ==
    /\ th[t].pc = "setBurst"
    /\ LET id == ResyncLimiter(th[t].conn, th[t].dir)
           cs == ConnsWith(id, NewRateLimiter(ResyncCfg(t)))
       IN conns' = [cs EXCEPT ![th[t].conn].mutex = 0]
    /\ th' = [th EXCEPT ![t].pc = "first"]
    /\ UNCHANGED <<bl, closed, ctxDone, now, adm, sent, acc, cfg>>

\* Faulty variant: setLimiter returns without unlocking, so the caller goes
\* to its waits with the connection's lock held.
SetBurstKeepsLock(t) ==
    /\ th[t].pc = "setBurst"
    /\ LET id == ResyncLimiter(th[t].conn, th[t].dir) IN
       conns' = ConnsWith(id, LimSetBurst(Limiter(id), ResyncCfg(t).burst))
    /\ th' = [th EXCEPT ![t].pc = "first"]
    /\ UNCHANGED <<bl, closed, ctxDone, now, adm, sent, acc, cfg>>

\* setLimiter: limiter.SetBurst(cfg.burst); the deferred Unlock
setLimiter_setBurst(t) ==
    /\ th[t].pc = "setBurst"
    /\ LET id == ResyncLimiter(th[t].conn, th[t].dir)
           cs == ConnsWith(id, LimSetBurst(Limiter(id), ResyncCfg(t).burst))
       IN conns' = [cs EXCEPT ![th[t].conn].mutex = 0]
    /\ th' = [th EXCEPT ![t].pc = "first"]
    /\ UNCHANGED <<bl, closed, ctxDone, now, adm, sent, acc, cfg>>

\* Faulty variant: a request larger than the burst waits instead of failing.
WaitNBlocking(t, pc, id, passed) ==
    /\ th[t].pc = pc
    /\ LET L == Limiter(id)
           n == th[t].n
       IN IF ConnCtxDone(th[t].conn)
          THEN /\ Return(t, 0, "Canceled")
               /\ UNCHANGED <<bl, conns>>
          ELSE /\ bl' = BlWith(id, LimReserve(L, n))
               /\ conns' = ConnsWith(id, LimReserve(L, n))
               /\ th' = [th EXCEPT
                     ![t].delay = LimDelay(L, n),
                     ![t].gtook = @ + Charge(id, n),
                     ![t].lok = @ \/ (id.scope = "conn" /\ LimDelay(L, n) = 0),
                     ![t].pc = IF LimDelay(L, n) = 0 THEN passed
                               ELSE pc \o "Sleep"]
    /\ UNCHANGED <<closed, ctxDone, now, adm, sent, acc, cfg>>

\* limiter.WaitN(bc.ctx, len(b)) on limiter id by a caller at position pc:
\* fails at once, passes at once, or reserves and sleeps.
WaitN(t, pc, id, passed) ==
    /\ th[t].pc = pc
    /\ LET L == Limiter(id)
           n == th[t].n
           err == LimWaitErr(L, n, ConnCtxDone(th[t].conn))
       IN IF err # "nil"
          THEN /\ Return(t, 0, err)
               /\ UNCHANGED <<bl, conns, acc, cfg>>
          ELSE /\ bl' = BlWith(id, LimReserve(L, n))
               /\ conns' = ConnsWith(id, LimReserve(L, n))
               /\ th' = [th EXCEPT
                     ![t].delay = LimDelay(L, n),
                     ![t].gtook = @ + Charge(id, n),
                     ![t].lok = @ \/ (id.scope = "conn" /\ LimDelay(L, n) = 0),
                     ![t].pc = IF LimDelay(L, n) = 0 THEN passed
                               ELSE pc \o "Sleep"]
    /\ UNCHANGED <<closed, ctxDone, now, adm, sent, acc, cfg>>

\* The timer of a sleeping WaitN fires.
Wake(t, pc, id, passed) ==
    /\ th[t].pc = pc \o "Sleep"
    /\ th[t].delay = 0
    /\ th' = [th EXCEPT ![t].pc = passed,
                        ![t].lok = @ \/ id.scope = "conn"]
    /\ UNCHANGED <<bl, closed, conns, ctxDone, now, adm, sent, acc, cfg>>

\* The context is cancelled while WaitN sleeps: the reservation is cancelled
\* and gives back between nothing and all of its tokens.
Abort(t, pc, id, back) ==
    /\ th[t].pc = pc \o "Sleep"
    /\ ConnCtxDone(th[t].conn)
    /\ back \in 0..th[t].n
    /\ bl' = BlWith(id, LimRestore(Limiter(id), back))
    /\ conns' = ConnsWith(id, LimRestore(Limiter(id), back))
    /\ Return(t, 0, "Canceled")
    /\ UNCHANGED <<closed, ctxDone, now, adm, sent, acc, cfg>>

\* Faulty variant: the call reports len(b) instead of the stream's count.
ConnIOLen(t, res, counted) ==
    /\ th[t].pc = "io"
    /\ res \in StreamResults(th[t].n)
    /\ sent' = IF counted /\ Limited(th[t].conn, th[t].dir)
               THEN [sent EXCEPT ![th[t].conn][th[t].dir] = Min(SentCap, @ + res.n)]
               ELSE sent
    /\ th' = [th EXCEPT ![t] = [IdleThread EXCEPT
                  !.pc = "done", !.retN = th[t].n, !.err = res.err,
                  !.late = th[t].late,
                  !.invoked = th[t].invoked + 1,
                  !.io = [n |-> res.n, err |-> res.err,
                          op |-> th[t].dir, len |-> th[t].n]]]
    /\ UNCHANGED <<bl, closed, conns, ctxDone, now, adm, acc, cfg>>

\* bc.Conn.Write(b) / bc.Conn.Read(b): the wrapped stream's result is returned.
ConnIO(t, res, counted) ==
    /\ th[t].pc = "io"
    /\ res \in StreamResults(th[t].n)
    /\ sent' = IF counted /\ Limited(th[t].conn, th[t].dir)
               THEN [sent EXCEPT ![th[t].conn][th[t].dir] = Min(SentCap, @ + res.n)]
               ELSE sent
    /\ th' = [th EXCEPT ![t] = [IdleThread EXCEPT
                  !.pc = "done", !.retN = res.n, !.err = res.err,
                  !.late = th[t].late,
                  !.invoked = th[t].invoked + 1,
                  !.io = [n |-> res.n, err |-> res.err,
                          op |-> th[t].dir, len |-> th[t].n]]]
    /\ UNCHANGED <<bl, closed, conns, ctxDone, now, adm, acc, cfg>>

FirstWait(t) ==
    WaitN(t, "first", FirstLimiter(th[t].conn, th[t].dir), "second")
FirstWake(t) ==
    Wake(t, "first", FirstLimiter(th[t].conn, th[t].dir), "second")
FirstAbort(t) ==
    \E back \in 0..SetMax(Sizes) :
        Abort(t, "first", FirstLimiter(th[t].conn, th[t].dir), back)
SecondWait(t) ==
    WaitN(t, "second", SecondLimiter(th[t].conn, th[t].dir), "io")
SecondWake(t) ==
    Wake(t, "second", SecondLimiter(th[t].conn, th[t].dir), "io")
SecondAbort(t) ==
    \E back \in 0..SetMax(Sizes) :
        Abort(t, "second", SecondLimiter(th[t].conn, th[t].dir), back)

\* ------------------------------------------------------------- environment
Sleeping(t) == th[t].pc \in {"firstSleep", "secondSleep"}

\* One second passes: every bucket refills and every timer runs down.
Tick ==
    /\ now < MaxTime
    /\ now' = now + 1
    /\ bl' = [bl EXCEPT !.writeLimiter = LimRefill(@),
                        !.readLimiter = LimRefill(@)]
    /\ conns' = [k \in 1..Len(conns) |->
                    [conns[k] EXCEPT !.connWriteLimiter = LimRefill(@),
                                     !.connReadLimiter = LimRefill(@)]]
    /\ th' = [t \in Threads |->
                 IF Sleeping(t) THEN [th[t] EXCEPT !.delay = Max(0, @ - 1)]
                 ELSE th[t]]
    /\ UNCHANGED <<closed, ctxDone, adm, sent, acc, cfg>>

\* One second passes with no bound on the time: as Tick, with the clock
\* `now` stopping at MaxTime while buckets and timers go on.
Elapse ==
    /\ now' = Min(MaxTime, now + 1)
    /\ bl' = [bl EXCEPT !.writeLimiter = LimRefill(@),
                        !.readLimiter = LimRefill(@)]
    /\ conns' = [k \in 1..Len(conns) |->
                    [conns[k] EXCEPT !.connWriteLimiter = LimRefill(@),
                                     !.connReadLimiter = LimRefill(@)]]
    /\ th' = [t \in Threads |->
                 IF Sleeping(t) THEN [th[t] EXCEPT !.delay = Max(0, @ - 1)]
                 ELSE th[t]]
    /\ UNCHANGED <<closed, ctxDone, adm, sent, acc, cfg>>

\* The context given to NewListener is cancelled.
Cancel ==
    /\ ~ctxDone
    /\ ctxDone' = TRUE
    /\ UNCHANGED <<bl, closed, conns, now, th, adm, sent, acc, cfg>>

\* ----------------------------------------------------------------- callers
\* NewConfig(limit, burst...) returns to the caller whose arguments are in cfg.
CallNewConfig ==
    /\ ~cfg.returned
    /\ cfg' = [cfg EXCEPT !.returned = TRUE,
                          !.out = NewConfig(cfg.limit, cfg.burst)]
    /\ UNCHANGED <<bl, closed, conns, ctxDone, now, th, adm, sent, acc>>

\* NewUnlimitedConfig() returns.
CallNewUnlimitedConfig ==
    /\ ~cfg.returned
    /\ cfg' = [fn |-> "NewUnlimitedConfig", limit |-> Inf, burst |-> <<>>,
               returned |-> TRUE, out |-> NewUnlimitedConfig]
    /\ UNCHANGED <<bl, closed, conns, ctxDone, now, th, adm, sent, acc>>

\* c.IsTheSame(other) returns to a caller that holds the two quotas cfg.a and
\* cfg.b: x and y name the receiver and the argument.
CallIsTheSame(x, y) ==
    /\ <<x, y>> \notin cfg.called
    /\ cfg' = [cfg EXCEPT !.called = @ \cup {<<x, y>>},
                          !.same = @ \cup (IF IsTheSame(cfg[x], cfg[y])
                                           THEN {<<x, y>>} ELSE {})]
    /\ UNCHANGED <<bl, closed, conns, ctxDone, now, th, adm, sent, acc>>

\* No listener: what the caller of NewListener holds before the call returns,
\* and for ever when the call panics.
NilListener == [nil |-> TRUE]
NoListenerCall ==
    [fn |-> "NewListener", l |-> "none", returned |-> FALSE, panicked |-> FALSE]

\* Faulty variant: NewListener does not look at the wrapped listener.
NewListenerUnchecked(l) ==
    /\ cfg.l = "none"
    /\ cfg' = [cfg EXCEPT !.l = l, !.returned = TRUE]
    /\ bl' = NewListener
    /\ UNCHANGED <<closed, conns, ctxDone, now, th, adm, sent, acc>>

\* NewListener(ctx, l), called once: it panics when l is nil and returns the
\* listener otherwise.
CallNewListener(l) ==
    /\ cfg.l = "none"
    /\ IF l = "nil"
       THEN /\ cfg' = [cfg EXCEPT !.l = l, !.panicked = TRUE]
            /\ bl' = bl
       ELSE /\ cfg' = [cfg EXCEPT !.l = l, !.returned = TRUE]
            /\ bl' = NewListener
    /\ UNCHANGED <<closed, conns, ctxDone, now, th, adm, sent, acc>>

\* ------------------------------------------------------------ specification
AnyResult == UNION {StreamResults(n) : n \in Sizes}

\* Every operation of the package, interleaved freely.
Next ==
    \/ \E a \in Admins, w \in Quotas, r \in Quotas : SetConnLimits_retire(a, w, r)
    \/ \E a \in Admins : SetConnLimits_store(a)
    \/ \E a \in Admins, w \in Quotas, r \in Quotas : SetGlobalLimits_writeLimit(a, w, r)
    \/ \E a \in Admins : SetGlobalLimits_writeBurst(a)
    \/ \E a \in Admins : SetGlobalLimits_readLimit(a)
    \/ \E a \in Admins : SetGlobalLimits_readBurst(a)
    \/ Accept
    \/ \E t \in Threads, k \in ConnIds, d \in Dirs, n \in Sizes : Call(t, k, d, n)
    \/ \E t \in Threads : Select(t)
    \/ \E t \in Threads : setLimiter_fetch(t)
    \/ \E t \in Threads : setLimiter_lock(t)
    \/ \E t \in Threads : setLimiter_setLimit(t)
    \/ \E t \in Threads : setLimiter_setBurst(t)
    \/ \E t \in Threads : FirstWait(t)
    \/ \E t \in Threads : FirstWake(t)
    \/ \E t \in Threads : FirstAbort(t)
    \/ \E t \in Threads : SecondWait(t)
    \/ \E t \in Threads : SecondWake(t)
    \/ \E t \in Threads : SecondAbort(t)
    \/ \E t \in Threads, res \in AnyResult : ConnIO(t, res, TRUE)
    \/ Tick
    \/ Cancel

Spec == Init /\ [][Next]_vars

\* Reconfiguration of live connections: SetConnLimits against Read/Write on
\* one connection, within one instant.
NextResync ==
    \/ \E a \in SoleAdmin, w \in Quotas, r \in Quotas : SetConnLimits_retire(a, w, r)
    \/ \E a \in SoleAdmin : SetConnLimits_store(a)
    \/ \E m \in {1} : Len(conns) < m /\ Accept
    \/ \E t \in Threads, d \in Dirs : Call(t, 1, d, 1)
    \/ \E t \in Threads : Select(t)
    \/ \E t \in Threads : setLimiter_fetch(t)
    \/ \E t \in Threads : setLimiter_lock(t)
    \/ \E t \in Threads : setLimiter_setLimit(t)
    \/ \E t \in Threads : setLimiter_setBurst(t)
    \/ \E t \in Threads : FirstWait(t)
    \/ \E t \in Threads : SecondWait(t)
    \/ \E t \in Threads : ConnIO(t, [n |-> 1, err |-> "nil"], FALSE)

SpecResync == Init /\ [][NextResync]_vars

\* The limits are configured before the first Accept, as in the repository's
\* tests; Configurers are the callers of the Set* operations at that stage.
Configurers == IF Len(conns) = 0 THEN SoleAdmin ELSE {}

\* Shaping of traffic: concurrent Writes on two connections while time
\* passes, under write quotas fixed before the first Accept.
NextShaping ==
    \/ \E a \in Configurers, w \in Quotas, r \in {NewUnlimitedConfig} : SetConnLimits_retire(a, w, r)
    \/ \E a \in Configurers : SetConnLimits_store(a)
    \/ \E a \in Configurers, w \in Quotas, r \in {NewUnlimitedConfig} : SetGlobalLimits_writeLimit(a, w, r)
    \/ \E a \in Configurers : SetGlobalLimits_writeBurst(a)
    \/ \E a \in Configurers : SetGlobalLimits_readLimit(a)
    \/ \E a \in Configurers : SetGlobalLimits_readBurst(a)
    \/ Accept
    \/ \E t \in Threads, k \in ConnIds, d \in {"write"}, n \in Sizes : Call(t, k, d, n)
    \/ \E t \in Threads : Select(t)
    \/ \E t \in Threads : FirstWait(t)
    \/ \E t \in Threads : FirstWake(t)
    \/ \E t \in Threads : SecondWait(t)
    \/ \E t \in Threads : SecondWake(t)
    \/ \E t \in Threads, n \in Sizes : ConnIO(t, [n |-> n, err |-> "nil"], TRUE)
    \/ Tick

SpecShaping == Init /\ [][NextShaping]_vars

\* One Read/Write at a time on one connection, in either direction, under
\* quotas fixed before Accept: the waits, their failures, the wrapped
\* stream's results and the cancellation of the context.
NextCall ==
    \/ \E a \in Configurers, w \in Quotas, r \in Quotas : SetConnLimits_retire(a, w, r)
    \/ \E a \in Configurers : SetConnLimits_store(a)
    \/ \E a \in Configurers, w \in Quotas, r \in Quotas : SetGlobalLimits_writeLimit(a, w, r)
    \/ \E a \in Configurers : SetGlobalLimits_writeBurst(a)
    \/ \E a \in Configurers : SetGlobalLimits_readLimit(a)
    \/ \E a \in Configurers : SetGlobalLimits_readBurst(a)
    \/ \E m \in {1} : Len(conns) < m /\ Accept
    \/ \E t \in {1}, k \in ConnIds, d \in Dirs, n \in Sizes : Call(t, k, d, n)
    \/ \E t \in Threads : Select(t)
    \/ \E t \in Threads : FirstWait(t)
    \/ \E t \in Threads : FirstWake(t)
    \/ \E t \in Threads : FirstAbort(t)
    \/ \E t \in Threads : SecondWait(t)
    \/ \E t \in Threads : SecondWake(t)
    \/ \E t \in Threads : SecondAbort(t)
    \/ \E t \in Threads, res \in AnyResult : ConnIO(t, res, FALSE)
    \/ Tick
    \/ Cancel

SpecCall == Init /\ [][NextCall]_vars

\* Reconfiguration of a live connection with no passage of time: both Set*
\* operations against one caller of Read/Write.
NextReconfig ==
    \/ \E a \in SoleAdmin, w \in Quotas, r \in Quotas : SetConnLimits_retire(a, w, r)
    \/ \E a \in SoleAdmin : SetConnLimits_store(a)
    \/ \E a \in SoleAdmin, w \in Quotas, r \in Quotas : SetGlobalLimits_writeLimit(a, w, r)
    \/ \E a \in SoleAdmin : SetGlobalLimits_writeBurst(a)
    \/ \E a \in SoleAdmin : SetGlobalLimits_readLimit(a)
    \/ \E a \in SoleAdmin : SetGlobalLimits_readBurst(a)
    \/ \E m \in {1} : Len(conns) < m /\ Accept
    \/ \E t \in {1}, k \in ConnIds, d \in Dirs, n \in Sizes : Call(t, k, d, n)
    \/ \E t \in Threads : Select(t)
    \/ \E t \in Threads : setLimiter_fetch(t)
    \/ \E t \in Threads : setLimiter_lock(t)
    \/ \E t \in Threads : setLimiter_setLimit(t)
    \/ \E t \in Threads : setLimiter_setBurst(t)
    \/ \E t \in Threads : FirstWait(t)
    \/ \E t \in Threads : SecondWait(t)
    \/ \E t \in Threads, n \in Sizes : ConnIO(t, [n |-> n, err |-> "nil"], FALSE)

SpecReconfig == Init /\ [][NextReconfig]_vars

\* The listener's own operations: both Set* operations, Accept and its
\* failure, while the context may be cancelled.
NextAccept ==
    \/ \E a \in SoleAdmin, w \in Quotas, r \in Quotas : SetConnLimits_retire(a, w, r)
    \/ \E a \in SoleAdmin : SetConnLimits_store(a)
    \/ \E a \in SoleAdmin, w \in Quotas, r \in Quotas : SetGlobalLimits_writeLimit(a, w, r)
    \/ \E a \in SoleAdmin : SetGlobalLimits_writeBurst(a)
    \/ \E a \in SoleAdmin : SetGlobalLimits_readLimit(a)
    \/ \E a \in SoleAdmin : SetGlobalLimits_readBurst(a)
    \/ Accept
    \/ \E raw \in {0, 1} : AcceptFail(raw)
    \/ Cancel

SpecAccept == Init /\ [][NextAccept]_vars

\* Calls of the quota constructors: the arguments are drawn at the start,
\* rates in units of 1/Den (negative, zero, fractional, whole, unlimited)
\* and the variadic burst with none, one or two values.
ConfigLimits == {-Den, -1, 0, 1, Den, Den + 1, 2 * Den, Inf}
ConfigBursts ==
    {<<>>, <<-1>>, <<0>>, <<1>>, <<2>>, <<3>>, <<0, 2>>, <<2, 1>>}

InitConfig ==
    /\ bl = NewListener
    /\ closed = {}
    /\ conns = <<>>
    /\ ctxDone = FALSE
    /\ now = 0
    /\ th = [t \in Threads |-> IdleThread]
    /\ adm = [a \in Admins |-> IdleAdmin]
    /\ sent = [k \in ConnIds |-> [d \in Dirs |-> 0]]
    /\ acc = NoAccept
    /\ \E l \in ConfigLimits, b \in ConfigBursts :
          cfg = [NoConfigCall EXCEPT !.limit = l, !.burst = b]

NextConfig ==
    \/ CallNewConfig
    \/ CallNewUnlimitedConfig

SpecConfig == InitConfig /\ [][NextConfig]_vars

\* Comparisons of quotas: the two quotas are drawn at the start among the
\* values NewConfig returns, and compared in every order, also with
\* themselves.
SameConfigs == {NewConfig(l, b) : l \in ConfigLimits, b \in ConfigBursts}

InitSame ==
    /\ bl = NewListener
    /\ closed = {}
    /\ conns = <<>>
    /\ ctxDone = FALSE
    /\ now = 0
    /\ th = [t \in Threads |-> IdleThread]
    /\ adm = [a \in Admins |-> IdleAdmin]
    /\ sent = [k \in ConnIds |-> [d \in Dirs |-> 0]]
    /\ acc = NoAccept
    /\ \E a \in SameConfigs, b \in SameConfigs :
          cfg = [fn |-> "IsTheSame", a |-> a, b |-> b,
                 called |-> {}, same |-> {}]

NextSame == \E x \in {"a", "b"}, y \in {"a", "b"} : CallIsTheSame(x, y)

SpecSame == InitSame /\ [][NextSame]_vars

\* Construction: NewListener is called with or without a wrapped listener;
\* the listener's operations are there for the callers that got one.
InitNew ==
    /\ bl = NilListener
    /\ closed = {}
    /\ conns = <<>>
    /\ ctxDone = FALSE
    /\ now = 0
    /\ th = [t \in Threads |-> IdleThread]
    /\ adm = [a \in Admins |-> IdleAdmin]
    /\ sent = [k \in ConnIds |-> [d \in Dirs |-> 0]]
    /\ acc = NoAccept
    /\ cfg = NoListenerCall

\* The callers in S, once NewListener has returned a listener to them.
Built(S) == IF cfg.returned THEN S ELSE {}

NextNew ==
    \/ \E l \in {"nil", "ln"} : CallNewListener(l)
    \/ \E a \in Built(SoleAdmin), w \in Quotas, r \in Quotas : SetConnLimits_retire(a, w, r)
    \/ \E a \in Built(SoleAdmin) : SetConnLimits_store(a)
    \/ \E m \in Built({1}) : Len(conns) < m /\ Accept
    \/ \E raw \in Built({0, 1}) : AcceptFail(raw)

SpecNew == InitNew /\ [][NextNew]_vars

\* Publication of the per-connection quotas: two callers of SetConnLimits
\* against Accept and against the resync of Writes on the first connection.
NextPublish ==
    \/ \E a \in Admins, w \in Quotas, r \in Quotas : SetConnLimits_retire(a, w, r)
    \/ \E a \in Admins : SetConnLimits_store(a)
    \/ Accept
    \/ \E t \in {1} : Call(t, 1, "write", 1)
    \/ \E t \in Threads : Select(t)
    \/ \E t \in Threads : setLimiter_fetch(t)
    \/ \E t \in Threads : setLimiter_lock(t)
    \/ \E t \in Threads : setLimiter_setLimit(t)
    \/ \E t \in Threads : setLimiter_setBurst(t)
    \/ \E t \in Threads : FirstWait(t)
    \/ \E t \in Threads : SecondWait(t)
    \/ \E t \in Threads : ConnIO(t, [n |-> 1, err |-> "nil"], FALSE)

SpecPublish == Init /\ [][NextPublish]_vars

\* A connection on which only Write is invoked, by two concurrent callers,
\* while SetConnLimits changes the quotas.
NextWriters ==
    \/ \E a \in SoleAdmin, w \in Quotas, r \in Quotas : SetConnLimits_retire(a, w, r)
    \/ \E a \in SoleAdmin : SetConnLimits_store(a)
    \/ \E m \in {1} : Len(conns) < m /\ Accept
    \/ \E t \in Threads : Call(t, 1, "write", 1)
    \/ \E t \in Threads : Select(t)
    \/ \E t \in Threads : setLimiter_fetch(t)
    \/ \E t \in Threads : setLimiter_lock(t)
    \/ \E t \in Threads : setLimiter_setLimit(t)
    \/ \E t \in Threads : setLimiter_setBurst(t)
    \/ \E t \in Threads : FirstWait(t)
    \/ \E t \in Threads : SecondWait(t)
    \/ \E t \in Threads : ConnIO(t, [n |-> 1, err |-> "nil"], FALSE)

SpecWriters == Init /\ [][NextWriters]_vars

\* Concurrent callers of SetGlobalLimits against one caller of Read/Write on
\* one connection whose private limiters are unlimited, while time passes.
NextGlobals ==
    \/ \E a \in Admins, w \in Quotas, r \in Quotas : SetGlobalLimits_writeLimit(a, w, r)
    \/ \E a \in Admins : SetGlobalLimits_writeBurst(a)
    \/ \E a \in Admins : SetGlobalLimits_readLimit(a)
    \/ \E a \in Admins : SetGlobalLimits_readBurst(a)
    \/ \E m \in {1} : Len(conns) < m /\ Accept
    \/ \E t \in {1}, k \in ConnIds, d \in Dirs, n \in {1} : Call(t, k, d, n)
    \/ \E t \in Threads : Select(t)
    \/ \E t \in Threads : FirstWait(t)
    \/ \E t \in Threads : SecondWait(t)
    \/ \E t \in Threads : SecondWake(t)
    \/ \E t \in Threads, n \in {1} : ConnIO(t, [n |-> n, err |-> "nil"], FALSE)
    \/ Tick

SpecGlobals == Init /\ [][NextGlobals]_vars

\* Both Set* operations and Accept against two concurrent callers of Write
\* on one connection, with no passage of time: a caller that has to wait for
\* tokens stays blocked.
NextBlocked ==
    \/ \E a \in SoleAdmin, w \in Quotas, r \in {NewUnlimitedConfig} : SetConnLimits_retire(a, w, r)
    \/ \E a \in SoleAdmin : SetConnLimits_store(a)
    \/ \E a \in SoleAdmin, w \in Quotas, r \in {NewUnlimitedConfig} : SetGlobalLimits_writeLimit(a, w, r)
    \/ \E a \in SoleAdmin : SetGlobalLimits_writeBurst(a)
    \/ \E a \in SoleAdmin : SetGlobalLimits_readLimit(a)
    \/ \E a \in SoleAdmin : SetGlobalLimits_readBurst(a)
    \/ \E m \in {1} : Len(conns) < m /\ Accept
    \/ \E raw \in {0} : AcceptFail(raw)
    \/ \E t \in Threads : Call(t, 1, "write", 1)
    \/ \E t \in Threads : Select(t)
    \/ \E t \in Threads : setLimiter_fetch(t)
    \/ \E t \in Threads : setLimiter_lock(t)
    \/ \E t \in Threads : setLimiter_setLimit(t)
    \/ \E t \in Threads : setLimiter_setBurst(t)
    \/ \E t \in Threads : FirstWait(t)
    \/ \E t \in Threads : SecondWait(t)
    \/ \E t \in Threads : ConnIO(t, [n |-> 1, err |-> "nil"], FALSE)

SpecBlocked == Init /\ [][NextBlocked]_vars

\* Quotas told apart by direction: the callers of the Set* operations pass
\* one byte per second with burst 1, or unlimited, as write quota and two
\* bytes per second with burst 2, or unlimited, as read quota.
WriteQuotas == {NewConfig(Den, <<>>), NewUnlimitedConfig}
ReadQuotas == {NewConfig(2 * Den, <<>>), NewUnlimitedConfig}

\* Reconfiguration of a live connection with those quotas against one caller
\* of Read/Write, with no passage of time.
NextRouting ==
    \/ \E a \in SoleAdmin, w \in WriteQuotas, r \in ReadQuotas : SetConnLimits_retire(a, w, r)
    \/ \E a \in SoleAdmin : SetConnLimits_store(a)
    \/ \E a \in SoleAdmin, w \in WriteQuotas, r \in ReadQuotas : SetGlobalLimits_writeLimit(a, w, r)
    \/ \E a \in SoleAdmin : SetGlobalLimits_writeBurst(a)
    \/ \E a \in SoleAdmin : SetGlobalLimits_readLimit(a)
    \/ \E a \in SoleAdmin : SetGlobalLimits_readBurst(a)
    \/ \E m \in {1} : Len(conns) < m /\ Accept
    \/ \E t \in {1}, k \in ConnIds, d \in Dirs, n \in Sizes : Call(t, k, d, n)
    \/ \E t \in Threads : Select(t)
    \/ \E t \in Threads : setLimiter_fetch(t)
    \/ \E t \in Threads : setLimiter_lock(t)
    \/ \E t \in Threads : setLimiter_setLimit(t)
    \/ \E t \in Threads : setLimiter_setBurst(t)
    \/ \E t \in Threads : FirstWait(t)
    \/ \E t \in Threads : SecondWait(t)
    \/ \E t \in Threads, n \in Sizes : ConnIO(t, [n |-> n, err |-> "nil"], FALSE)

SpecRouting == Init /\ [][NextRouting]_vars

\* The steps a Read/Write caller t takes on its own, and those of a Set*
\* call a that is inside its critical section.
ThreadStep(t) ==
    \/ Select(t)
    \/ setLimiter_fetch(t)
    \/ setLimiter_lock(t)
    \/ setLimiter_setLimit(t)
    \/ setLimiter_setBurst(t)
    \/ FirstWait(t)
    \/ FirstWake(t)
    \/ SecondWait(t)
    \/ SecondWake(t)
    \/ ConnIO(t, [n |-> 1, err |-> "nil"], FALSE)

AdminStep(a) ==
    \/ SetConnLimits_store(a)
    \/ SetGlobalLimits_writeBurst(a)
    \/ SetGlobalLimits_readLimit(a)
    \/ SetGlobalLimits_readBurst(a)

\* Two concurrent callers of Write on one connection against both Set*
\* operations and Accept while time passes and the context is never
\* cancelled.  The write quotas passed are one byte per second and, for
\* SetConnLimits, unlimited.
LiveQuotas == {NewConfig(Den, <<>>), NewUnlimitedConfig}

NextLive ==
    \/ \E a \in SoleAdmin, w \in LiveQuotas, r \in {NewUnlimitedConfig} : SetConnLimits_retire(a, w, r)
    \/ \E a \in SoleAdmin, w \in {NewConfig(Den, <<>>)}, r \in {NewUnlimitedConfig} : SetGlobalLimits_writeLimit(a, w, r)
    \/ \E a \in SoleAdmin : AdminStep(a)
    \/ \E m \in {1} : Len(conns) < m /\ Accept
    \/ \E t \in Threads : Call(t, 1, "write", 1)
    \/ \E t \in Threads : ThreadStep(t)
    \/ Elapse

\* Fair scheduling: every goroutine that can run does run, a started
\* critical section is left, the wrapped stream answers and time passes.
\* Starting a call is up to the program's caller and is not forced.
SpecLive ==
    /\ Init /\ [][NextLive]_vars
    /\ WF_vars(Elapse)
    /\ \A t \in Threads : WF_vars(ThreadStep(t))
    /\ \A a \in SoleAdmin : WF_vars(AdminStep(a))

\* ------------------------------------------------------------------ claims
Resyncing == {"fetch", "lock", "setLimit", "setBurst"}
LimitingErrors == {"ErrBurst", "Canceled"}

\* Limiter L is set to quota q.
Holds(L, q) == L.limit = q.limit /\ L.burst = q.burst

\* Thread t takes a step of its own (time does not pass, nobody configures).
Steps(t) == th'[t] # th[t] /\ now' = now /\ adm' = adm

\* Bytes handed to the wrapped streams in direction d over all connections.
TotalSent(d) ==
    LET S[K \in SUBSET ConnIds] ==
            IF K = {} THEN 0
            ELSE LET k == CHOOSE x \in K : TRUE IN sent[k][d] + S[K \ {k}]
    IN S[ConnIds]

\* C1: no connection misses a configuration epoch.  A Read/Write of direction
\* d that started after the last change of the canonical quotas had returned,
\* and that has reached its local wait while no other call on its connection
\* is inside setLimiter, waits on a private limiter whose rate and burst are
\* the canonical quota of d, whatever ran in the other direction before.
C1_NoMissedEpoch ==
    \A t \in Threads :
        (/\ th[t].pc = "first"
         /\ th[t].fresh
         /\ bl.mutex = 0
         /\ \A u \in Threads \ {t} :
                ~(th[u].conn = th[t].conn /\ th[u].pc \in Resyncing))
        => Holds(Limiter(ConnLimiterOf(th[t].conn, th[t].dir)),
                 bl[ConnLimitField(th[t].dir)])

\* C2: the local wait precedes the global wait.  A call holds tokens of the
\* global limiter only once its private limiter has admitted the same byte
\* count, and no step of a call that is in (or fails at) its local wait
\* changes a global limiter.
C2_LocalBeforeGlobal ==
    [][\A t \in Threads :
          /\ th'[t].gtook > 0 => (th'[t].lok /\ th'[t].gtook = th'[t].n)
          /\ (th[t].pc \in {"select", "first", "firstSleep"} /\ Steps(t))
                => /\ th[t].gtook = 0
                   /\ bl'.writeLimiter = bl.writeLimiter
                   /\ bl'.readLimiter = bl.readLimiter]_vars

\* A call sits in its global wait, holding global tokens, after its finite
\* private limiter admitted it.
C2_Witness ==
    \E t \in Threads :
        /\ th[t].pc = "secondSleep"
        /\ th[t].gtook = th[t].n
        /\ Limiter(ConnLimiterOf(th[t].conn, th[t].dir)).limit # Inf

\* C3: a Read/Write whose local or global wait fails returns 0 bytes with the
\* error of that wait and has not invoked the wrapped stream; conversely a
\* call that returns a limiting error returns from a wait, never from the
\* stream.
C3_FailureShortCircuits ==
    [][\A t \in Threads :
          /\ (th[t].pc \in {"first", "firstSleep", "second", "secondSleep"}
                /\ th'[t].pc = "done")
                => /\ th'[t].retN = 0
                   /\ th'[t].invoked = 0
                   /\ th'[t].io.op = "none"
                   /\ th'[t].err =
                        IF Sleeping(t) THEN "Canceled"
                        ELSE LimWaitErr(
                               Limiter(IF th[t].pc = "first"
                                       THEN ConnLimiterOf(th[t].conn, th[t].dir)
                                       ELSE GlobalLimiterOf(th[t].dir)),
                               th[t].n, ctxDone)
                   /\ th'[t].err \in LimitingErrors
          /\ (th[t].pc # "done" /\ th'[t].pc = "done"
                /\ th'[t].err \in LimitingErrors)
                => th[t].pc # "io" /\ th'[t].retN = 0]_vars

\* A call has failed at the global wait (its private limiters are unlimited)
\* with the capacity error.
C3_Witness ==
    /\ th[1].pc = "done" /\ th[1].err = "ErrBurst" /\ th[1].retN = 0
    /\ Len(conns) = 1
    /\ conns[1].connWriteLimiter.limit = Inf
    /\ conns[1].connReadLimiter.limit = Inf

\* C4: a Read/Write reaches the wrapped stream only from a successful global
\* wait that followed a successful local wait; it then invokes the stream's
\* operation of its own direction once, with the requested length, and
\* returns the count and the error the stream reported.
C4_StreamResultReturned ==
    [][\A t \in Threads :
          /\ (th'[t].pc = "io" /\ th[t].pc # "io")
                => /\ th[t].pc \in {"second", "secondSleep"}
                   /\ th'[t].lok
                   /\ th'[t].invoked = 0
                   /\ th'[t].n = th[t].n /\ th'[t].dir = th[t].dir
          /\ (th[t].pc = "io" /\ Steps(t))
                => /\ th'[t].pc = "done"
                   /\ th'[t].invoked = 1
                   /\ th'[t].io.op = th[t].dir
                   /\ th'[t].io.len = th[t].n
                   /\ [n |-> th'[t].io.n, err |-> th'[t].io.err]
                         \in StreamResults(th[t].n)
                   /\ th'[t].retN = th'[t].io.n
                   /\ th'[t].err = th'[t].io.err]_vars

\* A Read of 2 bytes returned the stream's partial count with its error.
C4_Witness ==
    /\ th[1].pc = "done" /\ th[1].err = "EIO" /\ th[1].retN = 1
    /\ th[1].io.len = 2 /\ th[1].io.op = "read"

Oversize(t) ==
    \E id \in {ConnLimiterOf(th[t].conn, th[t].dir), GlobalLimiterOf(th[t].dir)} :
        Limiter(id).limit # Inf /\ th[t].n > Limiter(id).burst

C6_GlobalBudgetShared ==
    \A d \in Dirs :
        bl[GlobalLimitField(d)].limit # Inf
        => Den * TotalSent(d)
              <= Den * bl[GlobalLimitField(d)].burst + bl[GlobalLimitField(d)].limit * now

\* Two connections with unlimited private quotas have both written under a
\* finite global write quota, and together they have used the whole rate.
C6_Witness ==
    /\ bl.limitWriteGlobal.limit # Inf
    /\ bl.limitWriteConn.limit = Inf
    /\ sent[1]["write"] > 0 /\ sent[2]["write"] > 0
    /\ now > 0
    /\ Den * TotalSent("write") = bl.limitWriteGlobal.limit * now

\* C7: one private limiter per connection and direction.  Under a finite
\* per-connection quota (rate r, burst b) the bytes handed to the wrapped
\* stream of one connection in that direction up to time t are at most
\* b + r*t, however many callers write concurrently.
C7_PrivateLimiterShared ==
    \A k \in 1..Len(conns), d \in Dirs :
        bl[ConnLimitField(d)].limit # Inf
        => Den * sent[k][d]
              <= Den * bl[ConnLimitField(d)].burst + bl[ConnLimitField(d)].limit * now

\* Two callers have both written to connection 1 only, with no global limit,
\* and its private quota is used up to the bound.
C7_Witness ==
    /\ bl.limitWriteConn.limit # Inf
    /\ bl.limitWriteGlobal.limit = Inf
    /\ now > 0
    /\ \A t \in Threads : th[t].pc = "done" /\ th[t].retN > 0
    /\ sent[2]["write"] = 0
    /\ Den * sent[1]["write"]
          = Den * bl.limitWriteConn.burst + bl.limitWriteConn.limit * now

\* C8: connections do not compete for per-connection quota.  A step of a
\* Read/Write on connection A leaves every other connection B as it was and,
\* when the global quota of its direction is unlimited, leaves the listener
\* as it was, so nothing B's waits depend on has changed.
C8_ConnectionsIndependent ==
    [][\A t \in Threads, B \in 1..Len(conns) :
          LET A == IF th[t].pc \in {"idle", "done"} THEN th'[t].conn
                   ELSE th[t].conn
              d == IF th[t].pc \in {"idle", "done"} THEN th'[t].dir
                   ELSE th[t].dir
          IN (Steps(t) /\ A # 0 /\ A # B)
                => /\ conns'[B] = conns[B]
                   /\ bl[GlobalLimitField(d)].limit = Inf => bl' = bl]_vars

\* Under a finite per-connection write quota and no global limit, connection
\* 1 has spent tokens while connection 2 still has its full bucket.
C8_Witness ==
    /\ Len(conns) = 2
    /\ bl.limitWriteGlobal.limit = Inf
    /\ conns[1].connWriteLimiter.limit # Inf
    /\ conns[1].connWriteLimiter.tokens < conns[2].connWriteLimiter.tokens
    /\ sent[1]["write"] > 0

\* C9: a SetConnLimits(write, read) that differs from the canonical quotas in
\* the rate or the burst of a direction closes the current channel, installs
\* a new open one and stores both quotas: when it returns, GetConnCfgs gives
\* the new open channel with (write, read) and the channel that was current
\* before the call is closed.
C9_ChangeRetiresHandle ==
    [][\A a \in Admins :
          /\ (adm[a].pc = "idle" /\ adm'[a] # adm[a]
                /\ adm'[a].globals = adm[a].globals
                /\ (adm'[a].w # bl.limitWriteConn \/ adm'[a].r # bl.limitReadConn))
                => /\ adm'[a].pc = "connStore"
                   /\ closed' = closed \cup {bl.c}
                   /\ bl'.c \notin closed'
                   /\ bl'.mutex = a
          /\ (adm[a].pc = "connStore" /\ adm'[a] # adm[a])
                => /\ adm'[a].pc = "idle"
                   /\ bl'.mutex = 0
                   /\ <<bl'.c, bl'.limitWriteConn, bl'.limitReadConn>>
                         = <<bl.c, adm[a].w, adm[a].r>>
                   /\ bl'.c \notin closed'
                   /\ bl'.c # adm[a].before
                   /\ adm[a].before \in closed']_vars

\* A changing SetConnLimits has returned and left an accepted connection
\* with a closed channel.
C9_Witness ==
    /\ adm[1].last = "changed"
    /\ GetConnCfgs = <<bl.c, adm[1].w, adm[1].r>>
    /\ Len(conns) = 1 /\ conns[1].c \in closed

\* C10: SetConnLimits with both quotas equal to the canonical ones is a
\* no-op: the channel is neither closed nor replaced, the canonical quotas
\* stay, and no connection becomes stale.
C10_SameQuotasNoOp ==
    [][\A a \in Admins :
          (adm[a].pc = "idle" /\ adm'[a] # adm[a]
             /\ adm'[a].globals = adm[a].globals
             /\ adm'[a].w = bl.limitWriteConn /\ adm'[a].r = bl.limitReadConn)
          => /\ adm'[a].pc = "idle"
             /\ bl' = bl
             /\ closed' = closed
             /\ conns' = conns]_vars

\* A SetConnLimits with the current finite quotas has returned while a
\* connection exists.
C10_Witness ==
    /\ adm[1].last = "same"
    /\ adm[1].w.limit # Inf
    /\ adm[1].w = bl.limitWriteConn /\ adm[1].r = bl.limitReadConn
    /\ Len(conns) = 1 /\ conns[1].c \notin closed

\* Positions inside SetGlobalLimits, and a step of SetGlobalLimits or of
\* SetConnLimits by caller a.
GlobalPcs == {"globalWriteBurst", "globalReadLimit", "globalReadBurst"}
GlobalStep(a) ==
    adm'[a] # adm[a] /\ (adm[a].pc \in GlobalPcs \/ adm'[a].pc \in GlobalPcs)
ConnStep(a) == adm'[a] # adm[a] /\ ~GlobalStep(a)

\* C11: SetGlobalLimits needs no notification.  Its steps leave the channel,
\* the closed channels, the canonical per-connection quotas and every
\* connection unchanged; when it returns both global limiters have the rate
\* and burst passed; and a global wait that runs while no SetGlobalLimits is
\* in progress is decided by the current global quota of its direction,
\* without any resync.
C11_GlobalLimitsInPlace ==
    [][/\ \A a \in Admins :
             GlobalStep(a)
             => /\ bl'.c = bl.c /\ closed' = closed /\ conns' = conns
                /\ bl'.limitWriteConn = bl.limitWriteConn
                /\ bl'.limitReadConn = bl.limitReadConn
                /\ adm'[a].pc = "idle"
                      => /\ Holds(bl'.writeLimiter, adm[a].w)
                         /\ Holds(bl'.readLimiter, adm[a].r)
                         /\ bl'.limitWriteGlobal = adm[a].w
                         /\ bl'.limitReadGlobal = adm[a].r
       /\ \A t \in Threads :
             (th[t].pc = "second" /\ Steps(t)
                /\ \A a \in Admins : adm[a].pc \notin GlobalPcs)
             => LET q == IF th[t].dir = "write" THEN bl.limitWriteGlobal
                         ELSE bl.limitReadGlobal
                    L == IF th[t].dir = "write" THEN bl.writeLimiter
                         ELSE bl.readLimiter
                IN /\ Holds(L, q)
                   /\ th'[t].pc \notin Resyncing
                   /\ (th'[t].err = "ErrBurst")
                         <=> (q.limit # Inf /\ th[t].n > q.burst)]_vars

\* On a connection accepted before SetGlobalLimits, with unlimited private
\* quotas, a call has been rejected by the new global burst.
C11_Witness ==
    /\ adm[1].last = "global"
    /\ Len(conns) = 1 /\ bl.c = 0
    /\ bl.limitWriteConn.limit = Inf /\ bl.limitReadConn.limit = Inf
    /\ th[1].pc = "done" /\ th[1].err = "ErrBurst"

\* C12: a per-connection quota change reaches a live connection only through
\* the resync at the start of a call.  No step of SetConnLimits changes a
\* connection, a global quota or a global limiter; the rate or burst of a
\* private limiter changes only in a setLimiter step of a call of that
\* direction on that connection; and a call that is past its resync check
\* never enters setLimiter.
C12_AppliedOnlyAtResync ==
    [][/\ \A a \in Admins :
             ConnStep(a)
             => /\ conns' = conns
                /\ bl'.limitWriteGlobal = bl.limitWriteGlobal
                /\ bl'.limitReadGlobal = bl.limitReadGlobal
                /\ bl'.writeLimiter = bl.writeLimiter
                /\ bl'.readLimiter = bl.readLimiter
       /\ \A k \in 1..Len(conns), d \in Dirs :
             ~Holds(conns'[k][ConnLimiterField(d)], conns[k][ConnLimiterField(d)])
             => \E t \in Threads :
                    /\ th[t].conn = k /\ th[t].dir = d
                    /\ th[t].pc \in {"setLimit", "setBurst"}
                    /\ th'[t] # th[t]
       /\ \A t \in Threads :
             th[t].pc \in {"first", "firstSleep", "second", "secondSleep", "io"}
             => th'[t].pc \notin Resyncing]_vars

\* After a changing SetConnLimits has returned, a call that had passed its
\* resync check before is in its waits with the old limiter settings.
C12_Witness ==
    /\ adm[1].last = "changed"
    /\ \E t \in Threads :
          /\ th[t].pc \in {"first", "second", "io"}
          /\ ~th[t].fresh
          /\ conns[th[t].conn].c \in closed
          /\ ~Holds(Limiter(ConnLimiterOf(th[t].conn, th[t].dir)),
                    bl[ConnLimitField(th[t].dir)])

\* The request of call t is larger than the burst of finite limiter id.
TooBig(t, id) == Limiter(id).limit # Inf /\ th[t].n > Limiter(id).burst

\* C13 as stated: a call whose size exceeds the burst of a finite limiter on
\* its path, private or global, never blocks.
C13_AsStated ==
    \A t \in Threads : Sleeping(t) => ~Oversize(t)

\* C13, amended: a Read/Write whose size exceeds the burst of its finite
\* private limiter fails at once with the capacity error; one whose size
\* exceeds only the burst of the finite global limiter fails with the
\* capacity error as soon as its local wait has succeeded, and that local
\* wait may block.  Either way it returns 0 bytes, does not wait for the
\* refill of the limiter that rejects it and does not reach the stream; an
\* unlimited limiter rejects no size.
C13_BurstRejection ==
    [][\A t \in Threads :
          LET priv == ConnLimiterOf(th[t].conn, th[t].dir)
              glob == GlobalLimiterOf(th[t].dir)
              stage == IF th[t].pc = "first" THEN priv ELSE glob
          IN /\ (th[t].pc \in {"first", "second"} /\ Steps(t) /\ TooBig(t, stage))
                   => /\ th'[t].pc = "done"
                      /\ th'[t].err = "ErrBurst"
                      /\ th'[t].retN = 0
                      /\ th'[t].invoked = 0
                      /\ bl' = bl /\ conns' = conns
             /\ (th[t].pc # "done" /\ th'[t].pc = "done"
                   /\ th'[t].err = "ErrBurst")
                   => th[t].pc \in {"first", "second"} /\ TooBig(t, stage)
             /\ (th[t].pc = "firstSleep") => ~TooBig(t, priv)
             /\ (th[t].pc \in {"secondSleep", "io"})
                   => ~TooBig(t, priv) /\ ~TooBig(t, glob)]_vars

\* A call larger than the global burst is blocked in its local wait.
C13_Witness ==
    \E t \in Threads :
        /\ th[t].pc = "firstSleep"
        /\ TooBig(t, GlobalLimiterOf(th[t].dir))

\* C14: a successful Accept appends a connection whose private limiters have
\* the rate and burst of the canonical per-connection quotas of that moment
\* (with a full bucket), whose channel is the listener's current open one,
\* and whose context and controller are the listener's; the listener and the
\* other connections are unchanged and the new connection is not stale.
C14_AcceptBuildsConnection ==
    [][Len(conns') > Len(conns)
       => LET k == Len(conns')
              c == conns'[k]
          IN /\ k = Len(conns) + 1
             /\ SubSeq(conns', 1, Len(conns)) = conns
             /\ bl' = bl
             /\ Holds(c.connWriteLimiter, bl.limitWriteConn)
             /\ Holds(c.connReadLimiter, bl.limitReadConn)
             /\ c.connWriteLimiter.tokens = Den * bl.limitWriteConn.burst
             /\ c.connReadLimiter.tokens = Den * bl.limitReadConn.burst
             /\ c.c = bl.c /\ c.c \notin closed'
             /\ c.ctx = "bl.ctx" /\ c.controller = "bl"
             /\ acc' = [conn |-> k, wrapped |-> TRUE, err |-> "nil"]]_vars

\* A connection was accepted after a quota change: finite limiters and the
\* second channel.
C14_Witness ==
    /\ acc.wrapped /\ acc.conn = Len(conns)
    /\ conns[acc.conn].c = 1 /\ bl.c = 1
    /\ conns[acc.conn].connWriteLimiter.limit # Inf
    /\ bl.limitWriteConn # bl.limitReadConn

\* C15: when the wrapped listener's Accept fails, Accept returns its error
\* and its connection value as they are, wraps nothing, and changes neither
\* the listener nor the connections (no limiter is created).
C15_AcceptFailurePassthrough ==
    [][(acc' # acc /\ acc'.err # "nil")
       => /\ acc'.err = "EACCEPT"
          /\ ~acc'.wrapped
          /\ acc'.conn \in {0, 1}
          /\ conns' = conns
          /\ bl' = bl
          /\ closed' = closed]_vars

\* Accept has failed while SetConnLimits held the listener's lock.
C15_Witness ==
    /\ acc.err = "EACCEPT" /\ ~acc.wrapped
    /\ bl.mutex # 0

\* C16: the directions are independent.  No step of a Write changes a
\* private read limiter or the global read limiter (rate, burst or tokens),
\* and no step of a Read changes a write limiter; so the read limiter of a
\* connection that is only written to is never resynced.
C16_DirectionsIndependent ==
    [][\A t \in Threads :
          LET d == IF th[t].pc \in {"idle", "done"} THEN th'[t].dir
                   ELSE th[t].dir
          IN Steps(t)
             => IF d = "write"
                THEN /\ bl'.readLimiter = bl.readLimiter
                     /\ \A k \in 1..Len(conns) :
                           conns'[k].connReadLimiter = conns[k].connReadLimiter
                ELSE /\ bl'.writeLimiter = bl.writeLimiter
                     /\ \A k \in 1..Len(conns) :
                           conns'[k].connWriteLimiter = conns[k].connWriteLimiter]_vars

\* After a change of both quotas a Write has resynced the write limiter of
\* its connection and waits on it; the read limiter has the old settings.
C16_Witness ==
    /\ Len(conns) = 1 /\ conns[1].c = 1
    /\ adm[1].last = "changed"
    /\ th[1].pc = "firstSleep" /\ th[1].dir = "write"
    /\ Holds(conns[1].connWriteLimiter, bl.limitWriteConn)
    /\ conns[1].connWriteLimiter.limit # Inf
    /\ ~Holds(conns[1].connReadLimiter, bl.limitReadConn)

\* C17: after NewListener, as long as no Set* operation has been called,
\* GetGlobalLimits and GetConnLimits return the unlimited quota {Inf, 0} in
\* all four places, both global limiters are unlimited and the current
\* channel is open.
C17_DefaultSettings ==
    (\A a \in Admins : adm[a] = IdleAdmin)
    => LET unlimited == [limit |-> Inf, burst |-> 0] IN
       /\ GetGlobalLimits = <<unlimited, unlimited>>
       /\ GetConnLimits = <<unlimited, unlimited>>
       /\ bl.writeLimiter.limit = Inf /\ bl.readLimiter.limit = Inf
       /\ bl.c \notin closed

\* The listener right after NewListener.
C17_Witness ==
    /\ \A a \in Admins : adm[a] = IdleAdmin
    /\ conns = <<>> /\ acc = NoAccept /\ ~ctxDone
    /\ bl.c = 0 /\ closed = {}

\* C18: the getters return what the setters stored.  When SetConnLimits
\* returns, GetConnLimits is the (write, read) pair it was given; when
\* SetGlobalLimits returns, GetGlobalLimits is the pair it was given; no
\* step of one setter changes what the other getter returns, and no other
\* operation changes either.
C18_GettersReturnLastSet ==
    [][/\ \A a \in Admins :
             /\ (ConnStep(a) /\ adm'[a].pc = "idle")
                   => GetConnLimits' = <<adm'[a].w, adm'[a].r>>
             /\ ConnStep(a) => GetGlobalLimits' = GetGlobalLimits
             /\ (GlobalStep(a) /\ adm'[a].pc = "idle")
                   => GetGlobalLimits' = <<adm'[a].w, adm'[a].r>>
             /\ GlobalStep(a) => GetConnLimits' = GetConnLimits
       /\ adm' = adm
             => /\ GetConnLimits' = GetConnLimits
                /\ GetGlobalLimits' = GetGlobalLimits]_vars

\* SetGlobalLimits has returned after SetConnLimits: the getters return two
\* different pairs, each in the order it was passed.
C18_Witness ==
    /\ adm[1].last = "global" /\ adm[1].pc = "idle"
    /\ adm[1].w # adm[1].r
    /\ GetGlobalLimits = <<adm[1].w, adm[1].r>>
    /\ GetConnLimits[1] # GetConnLimits[2]
    /\ GetConnLimits # GetGlobalLimits

\* Bytes reserved so far on the private limiter of direction d of connection
\* k: those handed to the stream and those of calls past their reservation.
Reserved(k, d) ==
    LET S[T \in SUBSET Threads] ==
            IF T = {} THEN 0
            ELSE LET t == CHOOSE x \in T : TRUE IN
                 (IF /\ th[t].conn = k /\ th[t].dir = d
                     /\ th[t].pc \in {"firstSleep", "second", "secondSleep", "io"}
                  THEN th[t].n ELSE 0) + S[T \ {t}]
    IN sent[k][d] + S[Threads]

\* C19: a private limiter built from a finite quota (rate r, burst b) starts
\* full.  With no global limit its balance is never below b minus the bytes
\* reserved and never above that plus r per second elapsed; a request that
\* fits the balance passes the local wait at once, and one that does not
\* sleeps for the refill of the missing tokens and passes only when that
\* time has run down.
C19_FullBucketStart ==
    [][/\ Len(conns') > Len(conns)
             => \A d \in Dirs :
                   conns'[Len(conns')][ConnLimiterField(d)].tokens
                      = Den * bl[ConnLimitField(d)].burst
       /\ \A k \in 1..Len(conns'), d \in Dirs :
             LET L == conns'[k][ConnLimiterField(d)] IN
             (L.limit # Inf /\ bl'[GlobalLimitField(d)].limit = Inf)
             => /\ L.tokens >= Den * (L.burst - Reserved(k, d)')
                /\ L.tokens <= Den * (L.burst - Reserved(k, d)') + L.limit * now'
       /\ \A t \in Threads :
             LET L == Limiter(ConnLimiterOf(th[t].conn, th[t].dir)) IN
             /\ (th[t].pc = "first" /\ Steps(t)
                   /\ L.limit # Inf /\ th[t].n <= L.burst)
                   => IF L.tokens >= Den * th[t].n
                      THEN th'[t].pc = "second"
                      ELSE /\ th'[t].pc = "firstSleep"
                           /\ th'[t].delay >= 1
                           /\ th'[t].delay * L.limit >= Den * th[t].n - L.tokens
                           /\ (th'[t].delay - 1) * L.limit < Den * th[t].n - L.tokens
             /\ (th[t].pc = "firstSleep" /\ th'[t].pc = "second")
                   => th[t].delay = 0]_vars

\* Rate 1, burst 1, no global limit: the first 1-byte Write on the fresh
\* connection went through at time 0 and the second one sleeps one second.
C19_Witness ==
    /\ bl.limitWriteConn = [limit |-> Den, burst |-> 1]
    /\ bl.limitWriteGlobal.limit = Inf
    /\ now = 0 /\ sent[1]["write"] = 1
    /\ \E t \in Threads :
          /\ th[t].pc = "firstSleep" /\ th[t].conn = 1
          /\ th[t].n = 1 /\ th[t].delay = 1

\* C20: NewConfig(rate, burst...) returns {Inf, 0} for every rate <= 0 and
\* for the unlimited rate, whatever bursts are supplied, and
\* NewUnlimitedConfig returns the same value.
C20_UnlimitedNormalized ==
    cfg.returned
    => /\ (cfg.limit <= 0 \/ cfg.limit = Inf)
             => cfg.out = [limit |-> Inf, burst |-> 0]
       /\ cfg.fn = "NewUnlimitedConfig"
             => cfg.out = [limit |-> Inf, burst |-> 0]

\* NewConfig has returned for a negative rate given with positive bursts.
C20_Witness ==
    /\ cfg.returned /\ cfg.fn = "NewConfig"
    /\ cfg.limit < 0
    /\ Len(cfg.burst) = 2 /\ cfg.burst[1] > 0

\* C21: for every finite rate > 0, NewConfig keeps the rate and sets the
\* burst to the first supplied burst value when that value is positive, and
\* otherwise (no burst supplied, or first value <= 0) to the rate itself.
\* The burst is in bytes and the rate in 1/Den bytes per second.
C21_BurstDefaultsToRate ==
    (cfg.returned /\ cfg.fn = "NewConfig" /\ cfg.limit > 0 /\ cfg.limit # Inf)
    => /\ cfg.out.limit = cfg.limit
       /\ IF Len(cfg.burst) > 0 /\ cfg.burst[1] > 0
          THEN cfg.out.burst = cfg.burst[1]
          ELSE cfg.out.burst * Den = cfg.limit

\* C22: IsTheSame(a, b) is true exactly when a and b have the same rate and
\* the same burst; quotas with equal rate and different burst are not the
\* same; the relation is reflexive and symmetric.
C22_SameIsFieldEquality ==
    \A p \in cfg.called :
        LET x == cfg[p[1]]
            y == cfg[p[2]]
        IN /\ (p \in cfg.same) <=> (x.limit = y.limit /\ x.burst = y.burst)
           /\ (x.limit = y.limit /\ x.burst # y.burst) => p \notin cfg.same
           /\ p[1] = p[2] => p \in cfg.same
           /\ <<p[2], p[1]>> \in cfg.called
                 => ((p \in cfg.same) <=> (<<p[2], p[1]>> \in cfg.same))

\* Two quotas with the same finite rate and different bursts have been
\* compared in both orders and found different.
C22_Witness ==
    /\ cfg.a.limit = cfg.b.limit /\ cfg.a.limit # Inf
    /\ cfg.a.burst # cfg.b.burst
    /\ {<<"a", "b">>, <<"b", "a">>} \subseteq cfg.called
    /\ cfg.same \cap {<<"a", "b">>, <<"b", "a">>} = {}

\* C23: NewListener called without a wrapped listener (nil) panics and
\* returns no listener, and nothing runs after the panic; called with a
\* wrapped listener it does not fail and returns the listener with the
\* default settings.
C23_NilListenerPanics ==
    [][/\ ~cfg.panicked
       /\ cfg' # cfg
             => IF cfg'.l = "nil"
                THEN /\ cfg'.panicked /\ ~cfg'.returned
                     /\ bl' = NilListener
                     /\ conns' = <<>> /\ closed' = {}
                ELSE /\ cfg'.l = "ln"
                     /\ cfg'.returned /\ ~cfg'.panicked
                     /\ bl' # NilListener
                     /\ bl'.c \notin closed' /\ bl'.mutex = 0
                     /\ bl'.limitWriteConn.limit = Inf
                     /\ bl'.limitReadConn.limit = Inf
       /\ cfg' = cfg => (cfg.returned /\ bl # NilListener /\ bl' # NilListener)]_vars

\* NewListener has panicked: the caller has no listener.
C23_Witness ==
    /\ cfg.panicked /\ cfg.l = "nil"
    /\ bl = NilListener

\* The snapshots of (channel, write quota, read quota) that exist: those the
\* calls inside setLimiter have fetched, and what GetConnCfgs returns now
\* when no SetConnLimits is between closing the channel and storing.
Publishing == \E a \in Admins : adm[a].pc = "connStore"
Snapshots ==
    {<<th[t].c, th[t].wcfg, th[t].rcfg>> :
        t \in {u \in Threads : th[u].pc \in {"lock", "setLimit", "setBurst"}}}
    \cup (IF Publishing THEN {} ELSE {GetConnCfgs})

\* C24: the channel and the canonical per-connection quotas are published
\* together.  GetConnCfgs and Accept never run between the closing of the
\* channel and the storing of the quotas; what they take is the current
\* channel, not closed at that moment, with the quotas stored with it; and
\* any two snapshots with the same channel have the same quotas, so no new
\* channel is ever paired with the old quotas nor an old open channel with
\* the new ones.
C24_AtomicPublication ==
    [][/\ \A t \in Threads :
             (th[t].pc = "fetch" /\ th'[t].pc = "lock")
             => /\ ~Publishing
                /\ <<th'[t].c, th'[t].wcfg, th'[t].rcfg>>
                      = <<bl.c, bl.limitWriteConn, bl.limitReadConn>>
                /\ th'[t].c \notin closed
       /\ Len(conns') > Len(conns)
             => LET c == conns'[Len(conns')] IN
                /\ ~Publishing
                /\ c.c = bl.c /\ c.c \notin closed
                /\ Holds(c.connWriteLimiter, bl.limitWriteConn)
                /\ Holds(c.connReadLimiter, bl.limitReadConn)
       /\ \A a \in Admins : adm'[a].pc = "connStore" => bl'.mutex = a
       /\ \A s1 \in Snapshots', s2 \in Snapshots' : s1[1] = s2[1] => s1 = s2]_vars

\* A call holds the snapshot of the second channel while a third one is
\* being published by the other caller of SetConnLimits.
C24_Witness ==
    /\ adm[2].pc = "connStore" /\ bl.c = 2
    /\ adm[1].last = "changed"
    /\ th[1].pc = "lock" /\ th[1].c = 1
    /\ th[1].wcfg = bl.limitWriteConn /\ th[1].wcfg # adm[2].w

\* C25: the listener's current channel is open and every channel that was
\* current before is closed; a channel is closed once, by the SetConnLimits
\* that replaces it, and never while it is already closed, whichever callers
\* of SetConnLimits interleave.
C25_HandleFiredOnce ==
    [][/\ bl.c \notin closed /\ closed = 0..(bl.c - 1)
       /\ bl'.c \notin closed' /\ closed' = 0..(bl'.c - 1)
       /\ closed \subseteq closed'
       /\ closed' # closed
             => /\ closed' \ closed = {bl.c}
                /\ bl'.c # bl.c
                /\ \E a \in Admins :
                      /\ adm[a].pc = "idle" /\ adm'[a].pc = "connStore"
                      /\ \A b \in Admins \ {a} : adm[b].pc = "idle"]_vars

\* Two callers of SetConnLimits have each replaced a channel.
C25_Witness ==
    /\ closed = {0, 1} /\ bl.c = 2
    /\ adm[1].last = "changed" /\ adm[2].last = "changed"
    /\ adm[1].before # adm[2].before

\* Quota q rejects a request of n bytes: it is finite and n exceeds its burst.
Rejects(q, n) == q.limit # Inf /\ n > q.burst

\* The quota limiter L had before a change of its rate that has not been
\* followed by the change of its burst yet, as far as admission goes: L still
\* has the old burst, and among the quotas in use only the unlimited one has
\* burst 0.
OldRejects(L, n) == L.burst > 0 /\ n > L.burst

\* C26: a global wait never sees a half-applied global quota.  Whatever
\* SetGlobalLimits is doing, a call at its global wait is rejected with the
\* capacity error only if the quota being replaced or the quota being set
\* rejects its size; in particular a change from unlimited to a finite quota
\* with burst b never makes a call of n <= b bytes fail.
C26_NoHalfAppliedGlobal ==
    [][\A t \in Threads :
          (th[t].pc = "second" /\ Steps(t) /\ th'[t].err = "ErrBurst")
          => \/ Rejects(bl[GlobalLimitField(th[t].dir)], th[t].n)
             \/ OldRejects(bl[GlobalLimiterField(th[t].dir)], th[t].n)]_vars

\* C27: a local wait never sees a half-applied per-connection quota.  While
\* a sibling call resyncs the private limiter of the same connection and
\* direction, a call at its local wait is rejected with the capacity error
\* only if the quota being replaced or the quota the sibling fetched rejects
\* its size; in particular a resync from unlimited to a finite quota with
\* burst b never makes a sibling call of n <= b bytes fail.
C27_NoHalfAppliedLocal ==
    [][\A t \in Threads :
          (th[t].pc = "first" /\ Steps(t) /\ th'[t].err = "ErrBurst")
          => \/ OldRejects(Limiter(ConnLimiterOf(th[t].conn, th[t].dir)), th[t].n)
             \/ \E u \in Threads \ {t} :
                   /\ th[u].conn = th[t].conn /\ th[u].dir = th[t].dir
                   /\ th[u].pc = "setBurst"
                   /\ Rejects(ResyncCfg(u), th[t].n)]_vars

\* C28: the field bc.c is not accessed by two concurrent calls on one
\* connection, one of them writing, unless both hold the connection's lock.
\* The write is the assignment in setLimiter, made by the step that takes
\* the lock; the reads are those of the select at the start of Read/Write.
\* Whenever the next step of a call on a connection writes bc.c, no other
\* call on that connection is about to read it in its select.
C28_HandleAccessLocked ==
    \A u \in Threads, t \in Threads :
        (/\ u # t
         /\ th[u].pc = "lock"
         /\ conns[th[u].conn].mutex = 0
         /\ th[t].conn = th[u].conn)
        => th[t].pc # "select"

\* C29: on one connection and one direction the resyncs follow the order of
\* the configuration epochs (channels are numbered in that order).  A resync
\* never replaces the remembered channel, nor the quota applied with it, by
\* those of an older epoch: the channel a call stores in setLimiter is not
\* older than the one the connection remembers, and the remembered channel
\* never goes back.
C29_ResyncsFollowEpochs ==
    [][/\ \A t \in Threads :
             (th[t].pc = "lock" /\ th'[t].pc = "setLimit")
             => th[t].c >= conns[th[t].conn].c
       /\ \A k \in 1..Len(conns) : conns'[k].c >= conns[k].c]_vars

\* C30: on a connection on which only Write is invoked, whenever no caller
\* holds the connection's lock: if the remembered channel is the listener's
\* current one, the private write limiter has the rate and burst of the
\* canonical per-connection write quota; and a limiter whose rate or burst
\* differs from that quota goes with a remembered channel that is closed, so
\* the next Write resyncs.
C30_CurrentHandleCurrentQuota ==
    \A k \in 1..Len(conns) :
        conns[k].mutex = 0
        => /\ conns[k].c = bl.c
                 => Holds(conns[k].connWriteLimiter, bl.limitWriteConn)
           /\ ~Holds(conns[k].connWriteLimiter, bl.limitWriteConn)
                 => conns[k].c \in closed

\* After two changes of the write quota a Write that fetched the first
\* change has resynced last: the limiter has the older quota, the remembered
\* channel is the closed second one, and nobody holds the lock.
C30_Witness ==
    /\ Len(conns) = 1 /\ conns[1].mutex = 0
    /\ bl.c = 2 /\ conns[1].c = 1
    /\ bl.limitWriteConn.limit # Inf
    /\ conns[1].connWriteLimiter.limit # Inf
    /\ ~Holds(conns[1].connWriteLimiter, bl.limitWriteConn)
    /\ \E t \in Threads : th[t].pc = "first" /\ th[t].c = 2

\* C31: a Read/Write that returns a limiting error has consumed no tokens,
\* so the bytes charged to a private limiter equal the bytes requested of the
\* underlying stream.  Before any time has passed a private write limiter
\* built from a finite quota therefore holds its burst minus the bytes that
\* were handed to the stream or are held by calls that are past their local
\* wait and on their way to it.
C31_FailedCallsChargeNothing ==
    now = 0
    => \A k \in 1..Len(conns) :
           LET L == Limiter(ConnLimiterOf(k, "write")) IN
           L.limit # Inf => L.tokens = Den * (L.burst - Reserved(k, "write"))

\* C32: whenever no SetGlobalLimits call is inside its critical section, the
\* global write limiter has the rate and burst of the canonical global write
\* quota and the global read limiter those of the canonical global read
\* quota; and once some call has returned, both canonical quotas are the
\* arguments of one single call that has returned, never a mix of two.
C32_GlobalLimitersCanonical ==
    (\A a \in Admins : adm[a].pc \notin GlobalPcs)
    => /\ Holds(bl.writeLimiter, GetGlobalLimits[1])
       /\ Holds(bl.readLimiter, GetGlobalLimits[2])
       /\ (\E a \in Admins : adm[a].last = "global")
          => \E a \in Admins :
                 /\ adm[a].last = "global"
                 /\ GetGlobalLimits = <<adm[a].w, adm[a].r>>

\* Two callers have each completed a SetGlobalLimits with different write
\* quotas and different read quotas, and the limiters are finite.
C32_Witness ==
    /\ \A a \in Admins : adm[a].pc = "idle" /\ adm[a].last = "global"
    /\ adm[1].w # adm[2].w /\ adm[1].r # adm[2].r
    /\ bl.writeLimiter.limit # Inf /\ bl.readLimiter.limit # Inf
    /\ Holds(bl.writeLimiter, adm[2].w) /\ Holds(bl.readLimiter, adm[2].r)

\* The positions of a Set* call inside its critical section, and those of a
\* Read/Write that holds its connection's lock.
ListenerSection == GlobalPcs \cup {"connStore"}
ConnSection == {"setLimit", "setBurst"}
Suspended(t) == Sleeping(t) \/ th[t].pc = "io"

InCall(t) == th[t].pc \notin {"idle", "done"}

\* C34: under fair scheduling and with the context never cancelled, every
\* Read/Write call eventually returns, with the result of the underlying
\* stream or with the capacity-exceeded error, whatever Read/Write calls,
\* Accept, SetConnLimits and SetGlobalLimits it is interleaved with; and a
\* caller that asks for the listener's lock (in GetConnCfgs) or for its
\* connection's lock holds no connection's lock.
C34_EveryCallReturns ==
    /\ \A t \in Threads :
           InCall(t) ~> (th[t].pc = "done" /\ th[t].err \in {"nil", "ErrBurst"})
    /\ [](\A t \in Threads :
             th[t].pc \in {"fetch", "lock"}
             => \A k \in 1..Len(conns) : conns[k].mutex # t)

\* One call has returned bytes after time has passed while its sibling
\* sleeps for tokens and a SetConnLimits call holds the listener's lock.
C34_Witness ==
    /\ th[1].pc = "done" /\ th[1].err = "nil" /\ th[1].retN = 1
    /\ th[2].pc = "firstSleep" /\ th[2].delay > 0
    /\ \E a \in Admins : adm[a].pc = "connStore" /\ bl.mutex = a
    /\ now > 0

\* The rate and burst of every limiter, and the holder of every connection's
\* lock.
Shapes ==
    <<[bl.writeLimiter EXCEPT !.tokens = 0], [bl.readLimiter EXCEPT !.tokens = 0],
      [k \in 1..Len(conns) |->
          <<conns[k].mutex,
            [conns[k].connWriteLimiter EXCEPT !.tokens = 0],
            [conns[k].connReadLimiter EXCEPT !.tokens = 0]>>]>>

\* C35: the resync check is lazy and does not block.  The select of a call
\* whose connection remembers a channel that is not closed goes straight to
\* the local wait and changes nothing else; a call reaches the fetch from
\* the controller only from its select and only when the remembered channel
\* is closed; and outside the resync no step of a call changes the holder of
\* a connection's lock or the rate or burst of a limiter.
C35_LazyResyncCheck ==
    [][\A t \in Threads :
         /\ (Steps(t) /\ th[t].pc = "select"
               /\ conns[th[t].conn].c \notin closed)
            => /\ th'[t].pc = "first"
               /\ th'[t].c = th[t].c
               /\ UNCHANGED <<bl, conns>>
         /\ (th[t].pc # "fetch" /\ th'[t].pc = "fetch")
            => th[t].pc = "select" /\ conns[th[t].conn].c \in closed
         /\ (Steps(t) /\ th[t].pc \notin Resyncing)
            => Shapes' = Shapes]_vars

\* After a change of the quotas a call on a connection that remembers the
\* listener's current channel, which its select found open, stands at its
\* local wait having fetched nothing.
C35_Witness ==
    \E t \in Threads :
        /\ th[t].pc = "first" /\ th[t].c = 0
        /\ bl.c >= 1
        /\ conns[th[t].conn].c = bl.c
        /\ conns[th[t].conn].c \notin closed
        /\ conns[th[t].conn].mutex = 0

\* C36: resync is idempotent on the limiter.  The fetched channel is
\* remembered by every resync; and when the private limiter of the caller's
\* direction already has the rate and burst of the fetched quota, the two
\* limiter calls of the resync leave its rate, burst and token balance as
\* they are.
C36_ResyncIdempotent ==
    [][\A t \in Threads :
         /\ (Steps(t) /\ th[t].pc = "lock")
            => conns'[th[t].conn].c = th[t].c
         /\ (Steps(t) /\ th[t].pc \in {"setLimit", "setBurst"}
               /\ Holds(Limiter(ResyncLimiter(th[t].conn, th[t].dir)),
                        ResyncCfg(t)))
            => /\ Limiter(ResyncLimiter(th[t].conn, th[t].dir))'
                    = Limiter(ResyncLimiter(th[t].conn, th[t].dir))
               /\ conns'[th[t].conn].c = th[t].c]_vars

\* A caller is inside a resync whose fetched quota is finite and already
\* applied, on a limiter from which tokens have been taken: its first limiter
\* call has changed nothing and its second is about to run.
C36_Witness ==
    \E t \in Threads :
        LET L == Limiter(ResyncLimiter(th[t].conn, th[t].dir)) IN
        /\ th[t].pc = "setBurst"
        /\ L.limit # Inf
        /\ Holds(L, ResyncCfg(t))
        /\ L.tokens < L.burst * Den
        /\ conns[th[t].conn].c = th[t].c

\* The quotas given for direction d, and a limiter whose rate is one of
\* their rates and whose burst is one of their bursts.
Given(d) == IF d = "write" THEN WriteQuotas ELSE ReadQuotas
FromGiven(L, d) ==
    /\ L.limit \in {q.limit : q \in Given(d)}
    /\ L.burst \in {q.burst : q \in Given(d)}

\* A step in which the call of t is made to sleep, or is rejected for its
\* size, by its wait at position pc.
Gated(t, pc) ==
    /\ Steps(t) /\ th[t].pc = pc
    /\ \/ th'[t].pc = pc \o "Sleep"
       \/ th'[t].pc = "done" /\ th'[t].err = "ErrBurst"

\* C37: quotas are routed to the direction they were given for.  The
\* canonical quotas of a direction, the configs a resync fetches for it and
\* the rate and burst of its private and global limiters are always those
\* of quotas given for that direction (or the initial unlimited ones); and a
\* Read/Write is delayed or rejected only by a finite limiter of its own
\* direction.  So when every read quota given is unlimited no Read is ever
\* delayed or rejected, and likewise for Write.
C37_QuotasRouted ==
    /\ [](/\ bl.limitWriteConn \in WriteQuotas /\ bl.limitWriteGlobal \in WriteQuotas
          /\ bl.limitReadConn \in ReadQuotas /\ bl.limitReadGlobal \in ReadQuotas
          /\ \A d \in Dirs :
               /\ FromGiven(Limiter(GlobalLimiterOf(d)), d)
               /\ \A k \in 1..Len(conns) : FromGiven(Limiter(ConnLimiterOf(k, d)), d)
          /\ \A t \in Threads : th[t].wcfg \in WriteQuotas /\ th[t].rcfg \in ReadQuotas)
    /\ [][\A t \in Threads :
            /\ Gated(t, "first")
               => Limiter(ConnLimiterOf(th[t].conn, th[t].dir)).limit # Inf
            /\ Gated(t, "second")
               => Limiter(GlobalLimiterOf(th[t].dir)).limit # Inf]_vars

\* After SetConnLimits with a finite write quota and an unlimited read quota
\* and a resync by a Write, a Read on the same connection has passed both
\* waits while the private write limiter is finite and out of tokens.
C37_Witness ==
    /\ Len(conns) = 1
    /\ bl.limitWriteConn.limit # Inf /\ bl.limitReadConn.limit = Inf
    /\ bl.limitReadGlobal.limit = Inf
    /\ conns[1].c = bl.c /\ bl.c >= 1
    /\ conns[1].connWriteLimiter.limit # Inf
    /\ conns[1].connWriteLimiter.tokens <= 0
    /\ conns[1].connReadLimiter.limit = Inf
    /\ th[1].pc = "io" /\ th[1].dir = "read"

\* C38: every quota NewConfig returns is usable by a limiter: it is the
\* unlimited quota {Inf, 0}, or it has a finite rate > 0 and a burst >= 1,
\* for every input rate, fractional rates between 0 and 1 with no burst
\* supplied included.
C38_QuotaUsable ==
    (cfg.returned /\ cfg.fn = "NewConfig")
    => \/ cfg.out = [limit |-> Inf, burst |-> 0]
       \/ /\ cfg.out.limit > 0 /\ cfg.out.limit # Inf
          /\ cfg.out.burst >= 1

====
